---- MODULE Spec2Model ----
(***************************************************************************)
(* uc3m_money: validation and persistence pipeline for transfers, deposits *)
(* and balances over JSON-array store files.                                *)
(*                                                                          *)
(* Strings are sequences of one-character strings, so that regular          *)
(* expressions, slices and numeral parsing are computed character by        *)
(* character as the Python code does.  A call's outcome is a record         *)
(* [ok |-> TRUE, val |-> v] (the value returned) or [ok |-> FALSE,          *)
(* err |-> m] (the message of the exception raised).                        *)
(***************************************************************************)
EXTENDS Integers, Sequences, FiniteSets, TLC

VARIABLES today, clock, transfers, deposits, balances, txlog, depinput, last,
          pc, appending

vars == <<today, clock, transfers, deposits, balances, txlog, depinput, last, pc, appending>>

----------------------------------------------------------------------------
(* Outcomes and exception messages                                          *)

Ok(v) == [ok |-> TRUE, val |-> v]
Raise(m) == [ok |-> FALSE, err |-> m]

MsgIbanFormat == "Invalid IBAN format"
MsgIbanControl == "Invalid IBAN control digit"
MsgConcept == "Invalid concept format"
MsgType == "Invalid transfer type"
MsgDateFormat == "Invalid date format"
MsgPastDate == "Transfer date must be today or later."
MsgAmount == "Invalid transfer amount"
MsgDuplicate == "Duplicated transfer in transfer list"
MsgJsonDecode == "JSON Decode Error - Wrong JSON Format"
MsgInputNotFound == "Error: file input not found"
MsgInvalidKey == "Error - Invalid Key in JSON"
MsgDepositAmount == "Error - Invalid deposit amount"
MsgDepositZero == "Error - Deposit must be greater than 0"
MsgWrongFile == "Wrong file  or file path"
MsgWrongPath == "Wrong file or file path"
MsgIbanNotFound == "IBAN not found"

----------------------------------------------------------------------------
(* Characters                                                               *)

DigitChars == <<"0", "1", "2", "3", "4", "5", "6", "7", "8", "9">>
Digits == {DigitChars[i] : i \in 1..10}
UpperLetters == <<"A", "B", "C", "D", "E", "F", "G", "H", "I", "J", "K", "L", "M",
                  "N", "O", "P", "Q", "R", "S", "T", "U", "V", "W", "X", "Y", "Z">>
LowerLetters == <<"a", "b", "c", "d", "e", "f", "g", "h", "i", "j", "k", "l", "m",
                  "n", "o", "p", "q", "r", "s", "t", "u", "v", "w", "x", "y", "z">>
Upper == {UpperLetters[i] : i \in 1..26}
Alpha == Upper \cup {LowerLetters[i] : i \in 1..26}

DigitValOf == [c \in Digits |-> CHOOSE d \in 0..9 : DigitChars[d + 1] = c]
DigitVal(c) == DigitValOf[c]
UpperIndexOf == [c \in Upper |-> CHOOSE i \in 1..26 : UpperLetters[i] = c]
UpperIndex(c) == UpperIndexOf[c]

MinOf(S) == CHOOSE x \in S : \A y \in S : x <= y
MaxOf(S) == CHOOSE x \in S : \A y \in S : x >= y

\* A character that has no escape in a string of this module is written as
\* the token "U+" followed by its code point in hexadecimal: "U+00A0" is the
\* no-break space.  The characters for which str.isspace() is true, which
\* are those the pattern \s matches:
WhitespaceChars ==
    <<"\t", "\n", "U+000B", "\f", "\r", "U+001C", "U+001D", "U+001E",
      "U+001F", " ", "U+0085", "U+00A0", "U+1680", "U+2000", "U+2001",
      "U+2002", "U+2003", "U+2004", "U+2005", "U+2006", "U+2007", "U+2008",
      "U+2009", "U+200A", "U+2028", "U+2029", "U+202F", "U+205F", "U+3000">>
Whitespace == {WhitespaceChars[i] : i \in 1..Len(WhitespaceChars)}

\* The decimal digits of Unicode (category Nd), which are those the pattern
\* \d matches and those int() and float() read: runs of ten characters with
\* the values 0 to 9, each character as its token.  The runs are written by
\* the code point of the zero of each.
DecimalRuns ==
    LET HexChars == <<"0", "1", "2", "3", "4", "5", "6", "7", "8", "9",
                      "A", "B", "C", "D", "E", "F">>
        RECURSIVE HexOf(_, _)
        HexOf(n, width) ==
            IF n = 0 /\ width <= 0 THEN ""
            ELSE HexOf(n \div 16, width - 1) \o HexChars[(n % 16) + 1]
        CodePoint(n) == IF n \in 48..57 THEN DigitChars[n - 47] ELSE "U+" \o HexOf(n, 4)
        Of(zeros) == [r \in 1..Len(zeros) |-> [d \in 1..10 |-> CodePoint(zeros[r] + (d - 1))]]
    IN  Of(<<48, 1632, 1776, 1984, 2406, 2534, 2662, 2790,
             2918, 3046, 3174, 3302, 3430, 3558, 3664, 3792,
             3872, 4160, 4240, 6112, 6160, 6470, 6608, 6784,
             6800, 6992, 7088, 7232, 7248, 42528, 43216, 43264,
             43472, 43504, 43600, 44016, 65296, 66720, 68912, 69734,
             69872, 69942, 70096, 70384, 70736, 70864, 71248, 71360,
             71472, 71904, 72016, 72784, 73040, 73120, 92768, 92864,
             93008, 120782, 120792, 120802, 120812, 120822, 123200, 123632,
             125264, 130032>>)
DecimalDigits ==
    LET Of(runs) == UNION {{runs[r][d] : d \in 1..10} : r \in 1..Len(runs)}
    IN  Of(DecimalRuns)
DecimalValOf ==
    LET Of(runs) ==
            [c \in UNION {{runs[r][d] : d \in 1..10} : r \in 1..Len(runs)} |->
                CHOOSE d \in 0..9 : \E r \in 1..Len(runs) : runs[r][d + 1] = c]
    IN  Of(DecimalRuns)
DecimalVal(c) == DecimalValOf[c]

\* Python slice s[a:b] (0-based, end exclusive) and s[a:]
Slice(s, a, b) == SubSeq(s, a + 1, IF b > Len(s) THEN Len(s) ELSE b)
SliceFrom(s, a) == SubSeq(s, a + 1, Len(s))

\* str(n) for a natural number n
RECURSIVE NatStr(_)
NatStr(n) == IF n < 10 THEN <<DigitChars[n + 1]>>
             ELSE NatStr(n \div 10) \o <<DigitChars[(n % 10) + 1]>>

\* int(s) for a short string of decimal digits
RECURSIVE IntOfFirst(_, _)
IntOfFirst(s, n) == IF n = 0 THEN 0 ELSE 10 * IntOfFirst(s, n - 1) + DecimalVal(s[n])
IntOf(s) == IntOfFirst(s, Len(s))

AllIn(s, S) == \A i \in 1..Len(s) : s[i] \in S

----------------------------------------------------------------------------
(* validate_iban                                                            *)

\* re.compile(r"^ES[0-9]{22}").fullmatch(iban_str)
IbanPatternFullmatch(s) ==
    /\ Len(s) = 24
    /\ s[1] = "E" /\ s[2] = "S"
    /\ \A i \in 3..24 : s[i] \in Digits

\* for char, value in zip("A".."Z", range(10, 36)): iban = iban.replace(char, str(value))
RECURSIVE ReplaceLettersFirst(_, _)
ReplaceLettersFirst(s, n) ==
    IF n = 0 THEN <<>>
    ELSE ReplaceLettersFirst(s, n - 1)
         \o (IF s[n] \in Upper THEN NatStr(9 + UpperIndex(s[n])) ELSE <<s[n]>>)
ReplaceLetters(s) == ReplaceLettersFirst(s, Len(s))

\* int(iban) % 97.  The numeral has 26 digits, so the remainder is taken digit
\* by digit (Horner), which gives the same value as the big-integer remainder.
RECURSIVE NumeralMod97From(_, _, _)
NumeralMod97From(s, i, acc) ==
    IF i > Len(s) THEN acc
    ELSE NumeralMod97From(s, i + 1, (acc * 10 + DigitVal(s[i])) % 97)
NumeralMod97(s, acc) == NumeralMod97From(s, 1, acc)

validate_iban_prefix(iban_str) ==
    IF ~(Len(iban_str) >= 24 /\ IbanPatternFullmatch(SubSeq(iban_str, 1, 24)))
    THEN Raise(MsgIbanFormat)
    ELSE LET original_code == Slice(iban_str, 2, 4)
             zeroed == Slice(iban_str, 0, 2) \o <<"0", "0">> \o SliceFrom(iban_str, 4)
             rotated == SliceFrom(zeroed, 4) \o Slice(zeroed, 0, 4)
             remainder == NumeralMod97(ReplaceLetters(rotated), 0)
             computed_dc == 98 - remainder
         IN  IF IntOf(original_code) # computed_dc
             THEN Raise(MsgIbanControl)
             ELSE Ok(iban_str)

validate_iban(iban_str) ==
    IF ~IbanPatternFullmatch(iban_str)
    THEN Raise(MsgIbanFormat)
    ELSE LET original_code == Slice(iban_str, 2, 4)
             zeroed == Slice(iban_str, 0, 2) \o <<"0", "0">> \o SliceFrom(iban_str, 4)
             rotated == SliceFrom(zeroed, 4) \o Slice(zeroed, 0, 4)
             remainder == NumeralMod97(ReplaceLetters(rotated), 0)
             computed_dc == 98 - remainder
         IN  IF IntOf(original_code) # computed_dc
             THEN Raise(MsgIbanControl)
             ELSE Ok(iban_str)

----------------------------------------------------------------------------
(* IBAN inputs                                                              *)

IbanA == <<"E", "S", "9", "1", "2", "1", "0", "0", "0", "4", "1", "8", "4", "5", "0", "2", "0", "0", "0", "5", "1", "3", "3", "2">>
IbanB == <<"E", "S", "7", "9", "2", "1", "0", "0", "0", "8", "1", "3", "6", "1", "0", "1", "2", "3", "4", "5", "6", "7", "8", "9">>
IbanBadControl == <<"E", "S", "0", "0", "2", "1", "0", "0", "0", "4", "1", "8", "4", "5", "0", "2", "0", "0", "0", "5", "1", "3", "3", "2">>
IbanBadFormat == <<"E", "S", "1", "2", "3">>

IbanExtraDigit == IbanA \o <<"0">>
IbanLowerCase == <<"e", "s">> \o SliceFrom(IbanA, 2)
IbanLetterInside == Slice(IbanA, 0, 10) \o <<"A">> \o SliceFrom(IbanA, 11)
IbanFrench == <<"F", "R">> \o SliceFrom(IbanA, 2)
IbanShort == Slice(IbanA, 0, 23)

\* "ES", the two digits of cc, then the 20 digits of an account body
IbanWith(cc, body) ==
    <<"E", "S", DigitChars[(cc \div 10) + 1], DigitChars[(cc % 10) + 1]>> \o body

\* account bodies; the last three have computed control digits 98, 97 and 2
IbanBodies ==
    {SliceFrom(IbanA, 4), SliceFrom(IbanB, 4),
     <<"0", "0", "0", "0", "0", "0", "0", "0", "0", "0", "0", "0", "0", "0", "0", "0", "0", "0", "0", "3">>,
     <<"0", "0", "0", "0", "0", "0", "0", "0", "0", "0", "0", "0", "0", "0", "0", "0", "0", "0", "2", "1">>,
     <<"0", "0", "0", "0", "0", "0", "0", "0", "0", "0", "0", "0", "0", "0", "0", "0", "0", "0", "8", "2">>}

\* every pair of control digits on every body, and strings of other shapes
IbanInputs ==
    {IbanWith(cc, body) : cc \in 0..99, body \in IbanBodies}
    \cup {IbanBadFormat, IbanExtraDigit, IbanLowerCase, IbanLetterInside, IbanFrench,
          IbanShort, <<>>}

\* validate_iban on the strings above, evaluated once
ValidatedIbans == [s \in IbanInputs |-> validate_iban(s)]

\* a call of validate_iban
ValidateIban(s) == IF s \in IbanInputs THEN ValidatedIbans[s] ELSE validate_iban(s)

----------------------------------------------------------------------------
(* validate_concept                                                         *)

\* "." matches every character but the line feed
LineFeed == "\n"

\* re.fullmatch(r"^(?=^.{10,30}$)([a-zA-Z]+(\s[a-zA-Z]+)+)$", concept)
ConceptPatternFullmatch(s) ==
    /\ Len(s) >= 10 /\ Len(s) <= 30
    /\ \A i \in 1..Len(s) : s[i] # LineFeed
    /\ AllIn(s, Alpha \cup Whitespace)
    /\ s[1] \in Alpha /\ s[Len(s)] \in Alpha
    /\ \A i \in 1..(Len(s) - 1) : ~(s[i] \in Whitespace /\ s[i + 1] \in Whitespace)
    /\ \E i \in 1..Len(s) : s[i] \in Whitespace

validate_concept_any_whitespace(concept) ==
    IF \/ Len(concept) < 10 \/ Len(concept) > 30
       \/ ~AllIn(concept, Alpha \cup Whitespace)
       \/ concept[1] \notin Alpha \/ concept[Len(concept)] \notin Alpha
       \/ ~\E i \in 1..Len(concept) : concept[i] \in Whitespace
    THEN Raise(MsgConcept) ELSE Ok(<<>>)

validate_concept(concept) ==
    IF ~ConceptPatternFullmatch(concept) THEN Raise(MsgConcept) ELSE Ok(<<>>)

----------------------------------------------------------------------------
(* transfer type                                                            *)

ORDINARY == <<"O", "R", "D", "I", "N", "A", "R", "Y">>
INMEDIATE == <<"I", "N", "M", "E", "D", "I", "A", "T", "E">>
URGENT == <<"U", "R", "G", "E", "N", "T">>

\* re.fullmatch(r"(ORDINARY|INMEDIATE|URGENT)", transfer_type)
TypePatternFullmatch(s) == s \in {ORDINARY, INMEDIATE, URGENT}

----------------------------------------------------------------------------
(* validate_transfer_date                                                   *)

\* A calendar date is <<year, month, day>>; date comparison is lexicographic.
DateLess(a, b) ==
    \/ a[1] < b[1]
    \/ a[1] = b[1] /\ a[2] < b[2]
    \/ a[1] = b[1] /\ a[2] = b[2] /\ a[3] < b[3]

IsLeap(y) == (y % 4 = 0 /\ y % 100 # 0) \/ y % 400 = 0

DaysInMonth(y, m) ==
    IF m = 2 THEN (IF IsLeap(y) THEN 29 ELSE 28)
    ELSE IF m \in {4, 6, 9, 11} THEN 30 ELSE 31

\* re.compile(r"^(([0-2]\d|3[0-1])\/(0\d|1[0-2])\/\d\d\d\d)$").fullmatch(date_str)
DatePatternFullmatch(s) ==
    LET Matches(d) ==
            /\ Len(s) = 10
            /\ \/ s[1] \in {"0", "1", "2"} /\ s[2] \in d
               \/ s[1] = "3" /\ s[2] \in {"0", "1"}
            /\ s[3] = "/"
            /\ \/ s[4] = "0" /\ s[5] \in d
               \/ s[4] = "1" /\ s[5] \in {"0", "1", "2"}
            /\ s[6] = "/"
            /\ \A i \in 7..10 : s[i] \in d
    IN  Matches(DecimalDigits)

\* the patterns of strptime for %d and %m on two characters followed by "/":
\* 3[0-1]|[1-2]\d|0[1-9]|[1-9]| [1-9] and 1[0-2]|0[1-9]|[1-9]
StrptimeDay(s) ==
    \/ s[1] = "3" /\ s[2] \in {"0", "1"}
    \/ s[1] \in {"1", "2"} /\ s[2] \in DecimalDigits
    \/ s[1] = "0" /\ s[2] \in Digits \ {"0"}

StrptimeMonth(s) ==
    \/ s[1] = "1" /\ s[2] \in {"0", "1", "2"}
    \/ s[1] = "0" /\ s[2] \in Digits \ {"0"}

\* datetime.strptime(date_str, "%d/%m/%Y").date() on a string that matched the
\* pattern: the date, or ValueError when the string does not match the format
\* of strptime or day, month or year is out of range.
Strptime(s) ==
    LET Date(y, m, d) ==
            IF /\ StrptimeDay(Slice(s, 0, 2)) /\ StrptimeMonth(Slice(s, 3, 5))
               /\ y >= 1 /\ d <= DaysInMonth(y, m)
            THEN Ok(<<y, m, d>>)
            ELSE Raise("ValueError")
        Fields(fields) == Date(fields[3], fields[2], fields[1])
    IN  Fields([i \in 1..3 |-> IntOf(Slice(s, 3 * (i - 1), IF i = 3 THEN 10 ELSE 3 * i - 1))])

validate_transfer_date_yearfirst(date_str, now) ==
    IF ~DatePatternFullmatch(date_str) THEN Raise(MsgDateFormat)
    ELSE LET Parsed(parsed) ==
                 IF ~parsed.ok THEN Raise(MsgDateFormat)
                 ELSE IF parsed.val[1] < 2025 \/ parsed.val[1] > 2050 THEN Raise(MsgDateFormat)
                 ELSE IF DateLess(parsed.val, now) THEN Raise(MsgPastDate)
                 ELSE Ok(date_str)
         IN  Parsed(Strptime(date_str))

\* now is datetime.now(timezone.utc).date()
validate_transfer_date(date_str, now) ==
    IF ~DatePatternFullmatch(date_str) THEN Raise(MsgDateFormat)
    ELSE LET Parsed(parsed) ==
                 IF ~parsed.ok THEN Raise(MsgDateFormat)
                 ELSE IF DateLess(parsed.val, now) THEN Raise(MsgPastDate)
                 ELSE IF parsed.val[1] < 2025 \/ parsed.val[1] > 2050 THEN Raise(MsgDateFormat)
                 ELSE Ok(date_str)
         IN  Parsed(Strptime(date_str))

----------------------------------------------------------------------------
(* Natural numbers of any size                                              *)

\* The 53-bit significand of a double and the exact decimal expansions that
\* float() and repr() work on do not fit the model checker's integers: they
\* are kept as sequences of limbs to the base 10^4, least significant limb
\* first and without a most significant zero limb, so that 0 is <<>>.
Base == 10000

RECURSIVE BigTrim(_)
BigTrim(a) ==
    IF Len(a) > 0 /\ a[Len(a)] = 0 THEN BigTrim(SubSeq(a, 1, Len(a) - 1)) ELSE a

\* The limbs of a * m + carry below Base^Len(a) and the carry out of them, for
\* m and carry below 2^17.  The operators on limbs split their argument in
\* halves and finish one half before they start on the other, which keeps
\* the depth of the evaluation small.
RECURSIVE BigMulCarry(_, _, _)
BigMulCarry(a, m, carry) ==
    IF Len(a) = 0 THEN [limbs |-> <<>>, carry |-> carry]
    ELSE IF Len(a) = 1
    THEN [limbs |-> <<(a[1] * m + carry) % Base>>, carry |-> (a[1] * m + carry) \div Base]
    ELSE LET low == BigMulCarry(SubSeq(a, 1, Len(a) \div 2), m, carry)
         IN  IF low.carry < 0 THEN low
             ELSE LET high == BigMulCarry(SubSeq(a, Len(a) \div 2 + 1, Len(a)), m, low.carry)
                  IN  [limbs |-> low.limbs \o high.limbs, carry |-> high.carry]

\* a * m + carry
BigMulAdd(a, m, carry) ==
    LET Joined(product) ==
            product.limbs
            \o (IF product.carry = 0 THEN <<>>
                ELSE IF product.carry < Base THEN <<product.carry>>
                ELSE <<product.carry % Base, product.carry \div Base>>)
    IN  Joined(BigMulCarry(a, m, carry))

\* the limbs of (r * Base^Len(a) + a) div d and the remainder, for r < d < 2^17
RECURSIVE BigDivCarry(_, _, _)
BigDivCarry(a, d, r) ==
    IF Len(a) = 0 THEN [limbs |-> <<>>, r |-> r]
    ELSE IF Len(a) = 1
    THEN [limbs |-> <<(r * Base + a[1]) \div d>>, r |-> (r * Base + a[1]) % d]
    ELSE LET high == BigDivCarry(SubSeq(a, Len(a) \div 2 + 1, Len(a)), d, r)
         IN  IF high.r < 0 THEN high
             ELSE LET low == BigDivCarry(SubSeq(a, 1, Len(a) \div 2), d, high.r)
                  IN  [limbs |-> low.limbs \o high.limbs, r |-> low.r]

\* a div d and a mod d
BigDivRem(a, d) ==
    LET Trimmed(divided) == [q |-> BigTrim(divided.limbs), r |-> divided.r]
    IN  Trimmed(BigDivCarry(a, d, 0))

BigLess(a, b) ==
    IF Len(a) # Len(b) THEN Len(a) < Len(b)
    ELSE \E i \in 1..Len(a) : a[i] < b[i] /\ \A j \in (i + 1)..Len(a) : a[j] = b[j]

BigIsOdd(a) == Len(a) > 0 /\ a[1] % 2 = 1

RECURSIVE SmallPow(_, _)
SmallPow(x, n) == IF n = 0 THEN 1 ELSE x * SmallPow(x, n - 1)

\* a * 2^s and a * 5^k, one half of the factor after the other
RECURSIVE BigShiftLeft(_, _)
BigShiftLeft(a, s) ==
    IF s <= 13 THEN BigMulAdd(a, SmallPow(2, s), 0)
    ELSE LET half == BigShiftLeft(a, s \div 2)
         IN  IF Len(half) = 0 THEN <<>> ELSE BigShiftLeft(half, s - s \div 2)

RECURSIVE BigMulPow5(_, _)
BigMulPow5(a, k) ==
    IF k <= 5 THEN BigMulAdd(a, SmallPow(5, k), 0)
    ELSE LET half == BigMulPow5(a, k \div 2)
         IN  IF Len(half) = 0 THEN <<>> ELSE BigMulPow5(half, k - k \div 2)

\* a div 5^k, and whether the division left a remainder
RECURSIVE BigDivPow5(_, _)
BigDivPow5(a, k) ==
    IF k <= 5 THEN LET Divided(divided) == [q |-> divided.q, inexact |-> divided.r # 0]
                   IN  Divided(BigDivRem(a, SmallPow(5, k)))
    ELSE LET first == BigDivPow5(a, k \div 2)
         IN  IF Len(first.q) = 0 THEN [q |-> <<>>, inexact |-> Len(a) > 0]
             ELSE LET second == BigDivPow5(first.q, k - k \div 2)
                  IN  [q |-> second.q, inexact |-> first.inexact \/ second.inexact]

\* a div 2^s for s > 0, the last bit dropped (round) and whether a bit was
\* dropped after it (sticky)
RECURSIVE BigShiftRight(_, _)
BigShiftRight(a, s) ==
    IF s <= 13
    THEN LET Divided(divided, half) ==
                 [q |-> divided.q, round |-> divided.r >= half,
                  sticky |-> divided.r % half # 0]
         IN  Divided(BigDivRem(a, SmallPow(2, s)), SmallPow(2, s - 1))
    ELSE LET first == BigShiftRight(a, s \div 2)
         IN  IF Len(first.q) = 0 /\ ~first.round /\ ~first.sticky
             THEN [q |-> <<>>, round |-> FALSE, sticky |-> FALSE]
             ELSE LET second == BigShiftRight(first.q, s - s \div 2)
                  IN  [q |-> second.q, round |-> second.round,
                       sticky |-> second.sticky \/ first.round \/ first.sticky]

\* A decimal numeral is a sequence of digit values 0..9, most significant
\* first.  The number written by at most four digits:
RECURSIVE SmallOfDigits(_)
SmallOfDigits(ds) ==
    IF Len(ds) = 0 THEN 0
    ELSE 10 * SmallOfDigits(SubSeq(ds, 1, Len(ds) - 1)) + ds[Len(ds)]

BigOfDigits(ds) ==
    BigTrim([i \in 1..((Len(ds) + 3) \div 4) |->
                SmallOfDigits(SubSeq(ds, MaxOf({1, Len(ds) - 4 * i + 1}),
                                     Len(ds) - 4 * (i - 1)))])

StripLeadingZeros(ds) ==
    LET kept == {i \in 1..Len(ds) : ds[i] # 0}
    IN  IF kept = {} THEN <<>> ELSE SubSeq(ds, MinOf(kept), Len(ds))

StripTrailingZeros(ds) ==
    LET kept == {i \in 1..Len(ds) : ds[i] # 0}
    IN  IF kept = {} THEN <<>> ELSE SubSeq(ds, 1, MaxOf(kept))

\* the digits of a, without leading zeros
BigDigits(a) ==
    StripLeadingZeros([k \in 1..(4 * Len(a)) |->
        (a[Len(a) - (k - 1) \div 4] \div SmallPow(10, 3 - ((k - 1) % 4))) % 10])

Zeros(n) == [i \in 1..n |-> 0]

----------------------------------------------------------------------------
(* Floats: IEEE 754 doubles                                                 *)

\* 2^39, 2^48, 2^52, 2^53 and 2^57
Two39 == <<3888, 5581, 5497>>
Two48 == <<656, 7671, 4749, 281>>
Two52 == <<496, 2737, 5996, 4503>>
Two53 == <<992, 5474, 1992, 9007>>
Two57 == <<5872, 7585, 1880, 4115, 14>>

\* A double is kept as the decimal that repr() prints for it, which
\* identifies it: [kind, neg, digits, exp] with kind "finite", "inf" or
\* "nan", neg the sign, and for a finite value the shortest digits that round
\* to it (digit values, first and last not 0, <<>> for zero) and the position
\* exp of the decimal point: the value is 0.d1d2...dn * 10^exp.
FloatFinite(neg, digits, exp) ==
    [kind |-> "finite", neg |-> neg, digits |-> digits, exp |-> exp]
FloatZero(neg) == FloatFinite(neg, <<>>, 0)
FloatInf(neg) == [kind |-> "inf", neg |-> neg, digits |-> <<>>, exp |-> 0]
FloatNan == [kind |-> "nan", neg |-> FALSE, digits |-> <<>>, exp |-> 0]

\* The number ds * 10^e10 (ds without leading zeros, not empty) as an integer
\* y, a power of two b and a flag inexact: the number is y * 2^b when exact
\* and lies strictly between y * 2^b and (y + 1) * 2^b otherwise, in which
\* case y is at least 2^54.
BinaryScaled(ds, e10) ==
    IF e10 >= 0 THEN [y |-> BigOfDigits(ds \o Zeros(e10)), b |-> 0, inexact |-> FALSE]
    ELSE LET Divided(divided) ==
                 [y |-> divided.q, b |-> (3 * e10 - 54) + e10, inexact |-> divided.inexact]
         IN  Divided(BigDivPow5(BigShiftLeft(BigOfDigits(ds), 54 - 3 * e10), -e10))

\* Dropping the low bits of y until it fits 53 bits and the exponent is at
\* least -1074, the least exponent of a double; round is the last bit
\* dropped and sticky whether anything was dropped after it.
RECURSIVE Narrowed(_, _, _, _)
Narrowed(y, b, round, sticky) ==
    LET Dropping(s) ==
            IF s = 0 THEN [y |-> y, b |-> b, round |-> round, sticky |-> sticky]
            ELSE LET Shifted(shifted) ==
                         Narrowed(shifted.q, b + s, shifted.round,
                                  sticky \/ round \/ shifted.sticky)
                 IN  Shifted(BigShiftRight(y, s))
    IN  Dropping(IF Len(y) >= 6 THEN 13 * (Len(y) - 5)
                 ELSE IF b < -1074 THEN -1074 - b
                 ELSE IF ~BigLess(y, Two57) THEN 4
                 ELSE IF ~BigLess(y, Two53) THEN 1
                 ELSE 0)

\* doubling y while it has fewer than 53 bits and the exponent allows it
RECURSIVE Widened(_, _)
Widened(y, b) ==
    LET Doubling(s) ==
            IF s = 0 THEN [q |-> y, t |-> b]
            ELSE Widened(BigMulAdd(y, SmallPow(2, s), 0), b - s)
    IN  Doubling(IF Len(y) = 0 THEN 0
                 ELSE IF BigLess(y, Two39) /\ b - 13 >= -1074 THEN 13
                 ELSE IF BigLess(y, Two48) /\ b - 4 >= -1074 THEN 4
                 ELSE IF BigLess(y, Two52) /\ b > -1074 THEN 1
                 ELSE 0)

\* The double nearest to ds * 10^e10, ties to the even significand, as
\* [q, t] for q * 2^t, with q = <<>> for zero and t = 972 for infinity.
NearestDouble(ds, e10) ==
    LET Capped(wide) == IF wide.t > 971 THEN [q |-> <<>>, t |-> 972] ELSE wide
        Rounded(rounded, b) ==
            Capped(IF rounded = Two53 THEN [q |-> Two52, t |-> b + 1]
                   ELSE Widened(rounded, b))
        Narrow(narrow) ==
            Rounded(IF narrow.round /\ (narrow.sticky \/ BigIsOdd(narrow.y))
                    THEN BigMulAdd(narrow.y, 1, 1) ELSE narrow.y,
                    narrow.b)
        Scaled(scaled) == Narrow(Narrowed(scaled.y, scaled.b, FALSE, scaled.inexact))
    IN  Scaled(BinaryScaled(ds, e10))

\* the exact decimal expansion of q * 2^t: digits without leading zeros and
\* the position of the decimal point
ExactDecimal(q, t) ==
    LET Expansion(digits) ==
            [digits |-> digits, exp |-> Len(digits) + (IF t >= 0 THEN 0 ELSE t)]
    IN  Expansion(BigDigits(IF t >= 0 THEN BigShiftLeft(q, t) ELSE BigMulPow5(q, -t)))

\* ds + 1 in the last place
RECURSIVE DigitsPlusOne(_)
DigitsPlusOne(ds) ==
    IF Len(ds) = 0 THEN <<1>>
    ELSE IF ds[Len(ds)] < 9 THEN SubSeq(ds, 1, Len(ds) - 1) \o <<ds[Len(ds)] + 1>>
    ELSE DigitsPlusOne(SubSeq(ds, 1, Len(ds) - 1)) \o <<0>>

\* The decimal of n digits next below (side 0) or next above (side 1) the
\* number whose exact expansion is expansion at point: the digits d and the
\* power e10 of d * 10^e10, and the shortest form of it.
Neighbours(expansion, point, n, side) ==
    LET Written(d) ==
            [n |-> n, side |-> side, d |-> d, e10 |-> point - n,
             digits |-> StripTrailingZeros(d), exp |-> point + (Len(d) - n)]
    IN  Written(IF side = 0 THEN SubSeq(expansion, 1, n)
                ELSE DigitsPlusOne(SubSeq(expansion, 1, n)))

\* the neighbours of fewer digits than the expansion, and of 17 at most, that
\* round to the double target
RoundTrips(expansion, point, target) ==
    {c \in {Neighbours(expansion, point, n, side) :
                n \in 1..MinOf({17, Len(expansion) - 1}), side \in {0, 1}} :
        NearestDouble(c.d, c.e10) = target}

\* whether the decimal of n digits above the expansion is nearer to it than
\* the one below, a tie going to the even last digit
NearerAbove(expansion, n) ==
    \/ expansion[n + 1] > 5
    \/ expansion[n + 1] = 5 /\ \E i \in (n + 2)..Len(expansion) : expansion[i] # 0
    \/ /\ expansion[n + 1] = 5 /\ \A i \in (n + 2)..Len(expansion) : expansion[i] = 0
       /\ expansion[n] % 2 = 1

\* The shortest decimal that rounds to the double target, whose exact
\* expansion is expansion at point, and among the shortest the one nearest to
\* it, as repr() prints: 17 digits always suffice.
ShortestDecimal(expansion, point, target) ==
    LET Nearest(shortest) ==
            IF Cardinality(shortest) = 1 THEN CHOOSE c \in shortest : TRUE
            ELSE CHOOSE c \in shortest :
                     c.side = IF NearerAbove(expansion, c.n) THEN 1 ELSE 0
        Among(candidates, n) == Nearest({c \in candidates : c.n = n})
        Shortest(candidates) ==
            IF candidates = {}
            THEN [digits |-> StripTrailingZeros(expansion), exp |-> point]
            ELSE Among(candidates, MinOf({c.n : c \in candidates}))
    IN  Shortest(RoundTrips(expansion, point, target))

\* the float that is the double whose exact decimal expansion is exact
FloatOfExact(neg, double, exact) ==
    LET Shortest(shortest) == FloatFinite(neg, shortest.digits, shortest.exp)
    IN  Shortest(ShortestDecimal(exact.digits, exact.exp, double))

\* the float that is the double q * 2^t
FloatOfDouble(neg, double) ==
    IF double.t = 972 THEN FloatInf(neg)
    ELSE IF Len(double.q) = 0 THEN FloatZero(neg)
    ELSE FloatOfExact(neg, double, ExactDecimal(double.q, double.t))

\* The float nearest to the digits significant, without leading and trailing
\* zeros, with the decimal point after the first point of them.  A decimal
\* of at most 15 significant digits well inside the range of the normal
\* doubles is itself the shortest decimal of the double it rounds to
\* (DBL_DIG = 15); a number of 1e310 or more is beyond the largest double and
\* one below 1e-324 rounds to zero.
FloatOfSignificant(neg, significant, point) ==
    IF Len(significant) = 0 THEN FloatZero(neg)
    ELSE IF point > 309 THEN FloatInf(neg)
    ELSE IF point < -323 THEN FloatZero(neg)
    ELSE IF Len(significant) <= 15 /\ point > -300 /\ point <= 300
         THEN FloatFinite(neg, significant, point)
    ELSE FloatOfDouble(neg, NearestDouble(significant, point - Len(significant)))

\* the double nearest to ds * 10^e10, ds being any digits
FloatOfDecimal(neg, ds, e10) ==
    FloatOfSignificant(neg, StripTrailingZeros(StripLeadingZeros(ds)),
                       Len(StripLeadingZeros(ds)) + e10)

\* the digit values of a natural number, and float(n) for an integer n of
\* at most 15 digits, which is a double and its own shortest decimal
RECURSIVE NatDigits(_)
NatDigits(n) == IF n < 10 THEN <<n>> ELSE NatDigits(n \div 10) \o <<n % 10>>

FloatOfInt(n) ==
    LET Written(ds) == FloatFinite(n < 0, StripTrailingZeros(ds), Len(ds))
    IN  Written(StripLeadingZeros(NatDigits(IF n < 0 THEN -n ELSE n)))

\* a == b on floats: nan equals nothing, and 0.0 == -0.0
FloatEq(a, b) ==
    /\ a.kind # "nan" /\ b.kind # "nan"
    /\ \/ a = b
       \/ a.kind = "finite" /\ b.kind = "finite" /\ a.digits = <<>> /\ b.digits = <<>>

\* a < b for the magnitudes of two finite floats
MagnitudeLess(a, b) ==
    IF a.digits = <<>> THEN b.digits # <<>>
    ELSE IF b.digits = <<>> THEN FALSE
    ELSE IF a.exp # b.exp THEN a.exp < b.exp
    ELSE LET n == IF Len(a.digits) > Len(b.digits) THEN Len(a.digits) ELSE Len(b.digits)
             da == a.digits \o Zeros(n - Len(a.digits))
             db == b.digits \o Zeros(n - Len(b.digits))
         IN  \E i \in 1..n : da[i] < db[i] /\ \A j \in 1..(i - 1) : da[j] = db[j]

\* a < b on floats: every comparison with nan is false
FloatLt(a, b) ==
    /\ a.kind # "nan" /\ b.kind # "nan"
    /\ ~FloatEq(a, b)
    /\ IF a.kind = "inf" THEN a.neg
       ELSE IF b.kind = "inf" THEN ~b.neg
       ELSE IF a.neg # b.neg THEN a.neg
       ELSE IF a.neg THEN MagnitudeLess(b, a) ELSE MagnitudeLess(a, b)

\* x < n and x > n for a float x and an integer n
FloatLess(x, n) == FloatLt(x, FloatOfInt(n))
FloatGreater(x, n) == FloatLt(FloatOfInt(n), x)

----------------------------------------------------------------------------
(* float(text) and str(float)                                               *)

\* s.strip() of the characters of S
Stripped(s, S) ==
    LET kept == {i \in 1..Len(s) : s[i] \notin S}
    IN  IF kept = {} THEN <<>> ELSE SubSeq(s, MinOf(kept), MaxOf(kept))

LowerOf == [c \in Upper |-> LowerLetters[UpperIndex(c)]]
ToLower(s) == [i \in 1..Len(s) |-> IF s[i] \in Upper THEN LowerOf[s[i]] ELSE s[i]]

DotPositions(s) == {i \in 1..Len(s) : s[i] = "."}

\* the whitespace float() strips: that of str.isspace() but for the four
\* separators U+001C..U+001F
FloatSpace == Whitespace \ {"U+001C", "U+001D", "U+001E", "U+001F"}

\* float() first writes every decimal digit as its ASCII digit and every
\* whitespace character as a space
FloatAscii(s) ==
    LET Written(value) ==
            [i \in 1..Len(s) |-> IF s[i] \in DOMAIN value THEN DigitChars[value[s[i]] + 1]
                                 ELSE IF s[i] \in FloatSpace THEN " " ELSE s[i]]
    IN  Written(DecimalValOf)

\* an underscore is allowed between two digits only
UnderscoresBetweenDigits(s) ==
    \A i \in 1..Len(s) :
        s[i] = "_" => /\ i > 1 /\ i < Len(s)
                      /\ s[i - 1] \in Digits /\ s[i + 1] \in Digits

\* the exponent written by the digits s, capped where every double is
\* already infinite or zero
ExponentOf(s) ==
    LET digits == StripLeadingZeros([i \in 1..Len(s) |-> DigitVal(s[i])])
    IN  IF Len(digits) > 6 THEN 1000000 ELSE SmallOfDigits(digits)

\* What float(s) reads in a string s: surrounding whitespace, a sign, then
\* inf, infinity or nan in any case, or a decimal numeral with an optional
\* exponent; any other string is not a number.  The steps, each handing its
\* result to the one defined before it: the text in ASCII (Ascii), without
\* underscores and surrounding spaces (Text), the sign and what follows it
\* (Body), the mantissa and the exponent at the first e (Marked), the decimal
\* point and the sign of the exponent (Parts), the digits (Numeral).
FloatParts(s) ==
    LET Numeral(neg, whole, fraction, e) ==
            [ok |-> TRUE, kind |-> "finite", neg |-> neg,
             digits |-> [i \in 1..Len(whole \o fraction) |->
                            DigitVal((whole \o fraction)[i])],
             exp |-> e - Len(fraction)]
        Parts(neg, mantissa, dot, marked, exponent_neg, exponent_digits) ==
            IF ~(/\ AllIn(mantissa, Digits \cup {"."})
                 /\ Cardinality(DotPositions(mantissa)) <= 1
                 /\ Len(mantissa) > Cardinality(DotPositions(mantissa))
                 /\ ~marked \/ (Len(exponent_digits) > 0 /\ AllIn(exponent_digits, Digits)))
            THEN [ok |-> FALSE]
            ELSE Numeral(neg, SubSeq(mantissa, 1, dot - 1),
                         SubSeq(mantissa, dot + 1, Len(mantissa)),
                         IF exponent_neg THEN -ExponentOf(exponent_digits)
                         ELSE ExponentOf(exponent_digits))
        Marked(neg, mantissa, marked, exponent) ==
            Parts(neg, mantissa,
                  IF DotPositions(mantissa) = {} THEN Len(mantissa) + 1
                  ELSE MinOf(DotPositions(mantissa)),
                  marked,
                  Len(exponent) > 0 /\ exponent[1] = "-",
                  IF Len(exponent) > 0 /\ exponent[1] \in {"+", "-"}
                  THEN Tail(exponent) ELSE exponent)
        Body(neg, body, lower, marks) ==
            IF lower \in {<<"i", "n", "f">>, <<"i", "n", "f", "i", "n", "i", "t", "y">>}
            THEN [ok |-> TRUE, kind |-> "inf", neg |-> neg]
            ELSE IF lower = <<"n", "a", "n">> THEN [ok |-> TRUE, kind |-> "nan"]
            ELSE Marked(neg,
                        IF marks = {} THEN body ELSE SubSeq(body, 1, MinOf(marks) - 1),
                        marks # {},
                        IF marks = {} THEN <<>>
                        ELSE SubSeq(body, MinOf(marks) + 1, Len(body)))
        Signed(neg, body) ==
            Body(neg, body, ToLower(body), {i \in 1..Len(body) : body[i] \in {"e", "E"}})
        Text(text) ==
            Signed(Len(text) > 0 /\ text[1] = "-",
                   IF Len(text) > 0 /\ text[1] \in {"+", "-"} THEN Tail(text) ELSE text)
        Ascii(ascii) ==
            IF ~UnderscoresBetweenDigits(ascii) THEN [ok |-> FALSE]
            ELSE Text(Stripped(SelectSeq(ascii, LAMBDA c : c # "_"), {" "}))
    IN  Ascii(FloatAscii(s))

\* the float of what was read, ValueError for a string that is not a number
FloatOfParts(parts) ==
    IF ~parts.ok THEN Raise("ValueError")
    ELSE IF parts.kind = "inf" THEN Ok(FloatInf(parts.neg))
    ELSE IF parts.kind = "nan" THEN Ok(FloatNan)
    ELSE Ok(FloatOfDecimal(parts.neg, parts.digits, parts.exp))

\* float(s)
FloatOf(s) == FloatOfParts(FloatParts(s))

DigitStr(ds) == [i \in 1..Len(ds) |-> DigitChars[ds[i] + 1]]

\* the exponent of repr(): a sign and at least two digits
ExponentStr(e) ==
    (IF e < 0 THEN <<"-">> ELSE <<"+">>)
    \o (IF e > -10 /\ e < 10 THEN <<"0">> ELSE <<>>) \o NatStr(IF e < 0 THEN -e ELSE e)

\* str(x) and repr(x) of a float: the shortest digits that round to x, with
\* an exponent from 1e16 on and below 1e-4
FloatStr(x) ==
    IF x.kind = "nan" THEN <<"n", "a", "n">>
    ELSE (IF x.neg THEN <<"-">> ELSE <<>>)
         \o (IF x.kind = "inf" THEN <<"i", "n", "f">>
             ELSE IF x.digits = <<>> THEN <<"0", ".", "0">>
             ELSE IF x.exp > 16 \/ x.exp < -3
                  THEN <<DigitChars[x.digits[1] + 1]>>
                       \o (IF Len(x.digits) > 1 THEN <<".">> \o DigitStr(Tail(x.digits))
                           ELSE <<>>)
                       \o <<"e">> \o ExponentStr(x.exp - 1)
             ELSE IF x.exp <= 0
                  THEN <<"0", ".">> \o DigitStr(Zeros(-x.exp) \o x.digits)
             ELSE IF x.exp >= Len(x.digits)
                  THEN DigitStr(x.digits \o Zeros(x.exp - Len(x.digits))) \o <<".", "0">>
             ELSE DigitStr(SubSeq(x.digits, 1, x.exp)) \o <<".">>
                  \o DigitStr(SubSeq(x.digits, x.exp + 1, Len(x.digits))))

\* str(amount).split('.')[1]
AfterDot(s) == SubSeq(s, MinOf(DotPositions(s)) + 1, Len(s))

----------------------------------------------------------------------------
(* Amounts                                                                  *)

\* the amount part of validate_transfer_details
validate_amount_textual(amount) ==
    LET Parsed(parsed) ==
            IF ~parsed.ok THEN Raise(MsgAmount)
            ELSE IF DotPositions(amount) # {} /\ Len(AfterDot(amount)) > 2
                 THEN Raise(MsgAmount)
            ELSE IF FloatLess(parsed.val, 10) \/ FloatGreater(parsed.val, 10000)
                 THEN Raise(MsgAmount)
            ELSE Ok(parsed.val)
    IN  Parsed(FloatOf(amount))

validate_amount(amount) ==
    LET Printed(parsed, text) ==
            IF DotPositions(text) # {} /\ Len(AfterDot(text)) > 2 THEN Raise(MsgAmount)
            ELSE IF FloatLess(parsed, 10) \/ FloatGreater(parsed, 10000)
                 THEN Raise(MsgAmount)
            ELSE Ok(parsed)
        Parsed(parsed) ==
            IF ~parsed.ok THEN Raise(MsgAmount)
            ELSE Printed(parsed.val, FloatStr(parsed.val))
    IN  Parsed(FloatOf(amount))

validate_transfer_details_amount_first(concept, transfer_type, date, amount, now) ==
    LET Checked(checked_concept, checked_date, checked_amount) ==
            IF ~checked_concept.ok THEN checked_concept
            ELSE IF ~TypePatternFullmatch(transfer_type) THEN Raise(MsgType)
            ELSE IF ~checked_amount.ok THEN checked_amount
            ELSE IF ~checked_date.ok THEN checked_date
            ELSE checked_amount
    IN  Checked(validate_concept(concept), validate_transfer_date(date, now),
                validate_amount(amount))

validate_transfer_details(concept, transfer_type, date, amount, now) ==
    LET Checked(checked_concept, checked_date, f_amount) ==
            IF ~checked_concept.ok THEN checked_concept
            ELSE IF ~TypePatternFullmatch(transfer_type) THEN Raise(MsgType)
            ELSE IF ~checked_date.ok THEN checked_date
            ELSE f_amount
    IN  Checked(validate_concept(concept), validate_transfer_date(date, now),
                validate_amount(amount))

----------------------------------------------------------------------------
(* Files and JSON values                                                    *)

\* What is at a file path: nothing in an existing directory, nothing because
\* the directory of the path does not exist, a directory, a file of no bytes
\* (as open(path, "w") leaves it), a file of text that is not JSON, or a file
\* holding a JSON document that is an array, an object or a number.
FileMissing == [kind |-> "missing", items |-> <<>>]
FileNoParent == [kind |-> "noparent", items |-> <<>>]
FileDirectory == [kind |-> "directory", items |-> <<>>]
FileEmpty == [kind |-> "empty", items |-> <<>>]
FileInvalid == [kind |-> "invalid", items |-> <<>>]
FileArray(s) == [kind |-> "array", items |-> s]
FileObject(d) == [kind |-> "object", items |-> d]
FileNumber(n) == [kind |-> "number", items |-> n]

\* Python values read from or written to JSON
PyList(s) == [type |-> "list", items |-> s]
PyDict(d) == [type |-> "dict", items |-> d]
PyNumber(n) == [type |-> "number", items |-> n]
\* set(): a value json has no form for
PySet == [type |-> "set", items |-> <<>>]

\* json.load(file) on a file that holds a JSON document
JsonLoad(f) ==
    IF f.kind = "array" THEN PyList(f.items)
    ELSE IF f.kind = "object" THEN PyDict(f.items)
    ELSE PyNumber(f.items)

\* json.dump(data, file, indent=2): the file content written for a value
JsonDump(v) ==
    IF v.type = "list" THEN FileArray(v.items)
    ELSE IF v.type = "dict" THEN FileObject(v.items)
    ELSE FileNumber(v.items)

\* the records of a store file, as a sequence
Records(f) == IF f.kind = "array" THEN f.items ELSE <<>>

\* open(file_path, "r") raises FileNotFoundError where nothing is and
\* IsADirectoryError on a directory; only the first is handled
load_json_or_empty(f) ==
    IF f.kind \in {"missing", "noparent"} THEN Ok(PyList(<<>>))
    ELSE IF f.kind = "directory" THEN Raise("IsADirectoryError")
    ELSE IF f.kind \in {"empty", "invalid"} THEN Raise(MsgJsonDecode)
    ELSE Ok(JsonLoad(f))

\* os.path.isfile, then open and json.load
load_json_strict(f) ==
    IF f.kind \in {"missing", "noparent", "directory"} THEN Raise(MsgInputNotFound)
    ELSE IF f.kind \in {"empty", "invalid"} THEN Raise(MsgJsonDecode)
    ELSE Ok(JsonLoad(f))

\* write_json(file_path, data), and AccountManager.write_json_file: the
\* outcome and the file after it, when nothing else touches the file.
\* open(file_path, "w") raises FileNotFoundError where the directory of the
\* path does not exist and IsADirectoryError on a directory; else it creates
\* the file or truncates it.  json.dump raises TypeError at a value it has
\* no form for, and the text written before that value stays in the file:
\* nothing for a value that is all of the data, the start of an array for
\* an element of a list.
write_json(f, data) ==
    IF f.kind = "noparent" THEN [res |-> Raise(MsgWrongPath), file |-> f]
    ELSE IF f.kind = "directory" THEN [res |-> Raise("IsADirectoryError"), file |-> f]
    ELSE IF data.type = "set" THEN [res |-> Raise("TypeError"), file |-> FileEmpty]
    ELSE IF data.type = "list"
            /\ \E i \in 1..Len(data.items) :
                  "type" \in DOMAIN data.items[i] /\ data.items[i].type = "set"
         THEN [res |-> Raise("TypeError"), file |-> FileInvalid]
    ELSE [res |-> Ok(<<>>), file |-> JsonDump(data)]

\* the outcome of a handler that returns value after its write
Returning(written, value) ==
    IF written.res.ok THEN [res |-> Ok(value), file |-> written.file] ELSE written

append_record_overwrite(f, record) ==
    LET loaded == load_json_or_empty(f)
    IN  IF ~loaded.ok THEN [res |-> loaded, file |-> f]
        ELSE IF loaded.val.type # "list"
             THEN [res |-> Raise("AttributeError"), file |-> f]
        ELSE write_json(f, PyList(<<record>>))

\* The outcome of append_record and the content of the file after it.
\* records.append(record) raises AttributeError on a value that is no list.
append_record(f, record) ==
    LET loaded == load_json_or_empty(f)
    IN  IF ~loaded.ok THEN [res |-> loaded, file |-> f]
        ELSE IF loaded.val.type # "list"
             THEN [res |-> Raise("AttributeError"), file |-> f]
        ELSE write_json(f, PyList(Append(loaded.val.items, record)))

\* "for record in value" and the first use of each element by the loop body.
\* A list gives its items and an empty object nothing; a number is not
\* iterable (TypeError); a non-empty object gives its keys, which are
\* strings, and the loop body fails on the first of them with on_key:
\* TypeError where it subscripts the element (existing["from_iban"]) and
\* AttributeError where it calls element.get(...).
Iterable(v, on_key) ==
    IF v.type = "list" THEN Ok(v.items)
    ELSE IF v.type = "dict" /\ DOMAIN v.items = {} THEN Ok(<<>>)
    ELSE IF v.type = "dict" THEN Raise(on_key)
    ELSE Raise("TypeError")

----------------------------------------------------------------------------
(* TransferRequest                                                          *)

\* hashlib.md5(s.encode()).hexdigest(): the digest is kept symbolic, as the
\* digest of the string hashed.
Md5Hex(s) == <<"md5", s>>

\* datetime.timestamp(datetime.now(timezone.utc)): whole seconds t as a float
Timestamp(t) == FloatOfInt(t)

TransferRequest(from_iban, to_iban, transfer_concept, transfer_type, transfer_date, transfer_amount, t) ==
    [from_iban |-> from_iban, to_iban |-> to_iban,
     transfer_concept |-> transfer_concept, transfer_type |-> transfer_type,
     transfer_date |-> transfer_date, transfer_amount |-> transfer_amount,
     time_stamp |-> Timestamp(t)]

transfer_code_with_concept(r) ==
    Md5Hex(r.from_iban \o r.to_iban \o FloatStr(r.time_stamp) \o FloatStr(r.transfer_amount)
           \o r.transfer_concept)

transfer_code(r) ==
    Md5Hex(r.from_iban \o r.to_iban \o FloatStr(r.time_stamp) \o FloatStr(r.transfer_amount))

to_json(r) ==
    [from_iban |-> r.from_iban, to_iban |-> r.to_iban,
     transfer_concept |-> r.transfer_concept, transfer_type |-> r.transfer_type,
     transfer_date |-> r.transfer_date, transfer_amount |-> r.transfer_amount,
     time_stamp |-> r.time_stamp, transfer_code |-> transfer_code(r)]

----------------------------------------------------------------------------
(* Transfers                                                                *)

is_duplicate_transfer(transfer_list, request) ==
    \E i \in 1..Len(transfer_list) :
        /\ transfer_list[i].from_iban = request.from_iban
        /\ transfer_list[i].to_iban = request.to_iban
        /\ transfer_list[i].transfer_date = request.transfer_date
        /\ FloatEq(transfer_list[i].transfer_amount, request.transfer_amount)
        /\ transfer_list[i].transfer_concept = request.transfer_concept
        /\ transfer_list[i].transfer_type = request.transfer_type

create_transfer_append_first(from_iban, to_iban, concept, transfer_type, date, amount, now, t, store) ==
    LET Stored(transfer, transfer_list, appended) ==
            IF ~transfer_list.ok THEN [res |-> transfer_list, file |-> store]
            ELSE IF ~appended.res.ok THEN appended
            ELSE IF is_duplicate_transfer(transfer_list.val, transfer)
                 THEN [res |-> Raise(MsgDuplicate), file |-> appended.file]
            ELSE [res |-> Ok(transfer_code(transfer)), file |-> appended.file]
        Loaded(transfer, loaded) ==
            IF ~loaded.ok THEN [res |-> loaded, file |-> store]
            ELSE Stored(transfer, Iterable(loaded.val, "TypeError"),
                        append_record(store, to_json(transfer)))
        Validated(checked_from, checked_to, details) ==
            IF ~checked_from.ok THEN [res |-> checked_from, file |-> store]
            ELSE IF ~checked_to.ok THEN [res |-> checked_to, file |-> store]
            ELSE IF ~details.ok THEN [res |-> details, file |-> store]
            ELSE Loaded(TransferRequest(from_iban, to_iban, concept, transfer_type, date,
                                        details.val, t),
                        load_json_or_empty(store))
    IN  Validated(ValidateIban(from_iban), ValidateIban(to_iban),
                  validate_transfer_details(concept, transfer_type, date, amount, now))

\* TransferManager.create_transfer: the outcome and the transfer store after it
create_transfer(from_iban, to_iban, concept, transfer_type, date, amount, now, t, store) ==
    LET Stored(transfer, transfer_list, appended) ==
            IF ~transfer_list.ok THEN [res |-> transfer_list, file |-> store]
            ELSE IF is_duplicate_transfer(transfer_list.val, transfer)
                 THEN [res |-> Raise(MsgDuplicate), file |-> store]
            ELSE IF ~appended.res.ok THEN appended
            ELSE [res |-> Ok(transfer_code(transfer)), file |-> appended.file]
        Loaded(transfer, loaded) ==
            IF ~loaded.ok THEN [res |-> loaded, file |-> store]
            ELSE Stored(transfer, Iterable(loaded.val, "TypeError"),
                        append_record(store, to_json(transfer)))
        Validated(checked_from, checked_to, details) ==
            IF ~checked_from.ok THEN [res |-> checked_from, file |-> store]
            ELSE IF ~checked_to.ok THEN [res |-> checked_to, file |-> store]
            ELSE IF ~details.ok THEN [res |-> details, file |-> store]
            ELSE Loaded(TransferRequest(from_iban, to_iban, concept, transfer_type, date,
                                        details.val, t),
                        load_json_or_empty(store))
    IN  Validated(ValidateIban(from_iban), ValidateIban(to_iban),
                  validate_transfer_details(concept, transfer_type, date, amount, now))

\* AccountManager.transfer_request (src/main): the same steps, with the list
\* loaded once, appended to in memory and written back
transfer_request(from_iban, to_iban, concept, transfer_type, date, amount, now, t, store) ==
    LET Stored(my_request, loaded, transfer_list) ==
            IF ~transfer_list.ok THEN [res |-> transfer_list, file |-> store]
            ELSE IF is_duplicate_transfer(transfer_list.val, my_request)
                 THEN [res |-> Raise(MsgDuplicate), file |-> store]
            ELSE IF loaded.val.type # "list"
                 THEN [res |-> Raise("AttributeError"), file |-> store]
            ELSE Returning(write_json(store, PyList(Append(loaded.val.items,
                                                           to_json(my_request)))),
                           transfer_code(my_request))
        Loaded(my_request, loaded) ==
            IF ~loaded.ok THEN [res |-> loaded, file |-> store]
            ELSE Stored(my_request, loaded, Iterable(loaded.val, "TypeError"))
        Validated(checked_from, checked_to, validated_amount) ==
            IF ~checked_from.ok THEN [res |-> checked_from, file |-> store]
            ELSE IF ~checked_to.ok THEN [res |-> checked_to, file |-> store]
            ELSE IF ~validated_amount.ok THEN [res |-> validated_amount, file |-> store]
            ELSE Loaded(TransferRequest(from_iban, to_iban, concept, transfer_type, date,
                                        validated_amount.val, t),
                        load_json_or_empty(store))
    IN  Validated(ValidateIban(from_iban), ValidateIban(to_iban),
                  validate_transfer_details(concept, transfer_type, date, amount, now))

----------------------------------------------------------------------------
(* Deposits                                                                 *)

\* hashlib.sha256 over the canonical string of the deposit's fields, kept
\* symbolic as the digest of the fields hashed
Sha256Hex(fields) == <<"sha256", fields>>

AccountDeposit(to_iban, deposit_amount, t) ==
    [alg |-> "SHA-256", type |-> "DEPOSIT", to_iban |-> to_iban,
     deposit_amount |-> deposit_amount, deposit_date |-> Timestamp(t)]

deposit_signature(d) ==
    Sha256Hex(<<d.alg, d.type, d.to_iban, FloatStr(d.deposit_amount), FloatStr(d.deposit_date)>>)

deposit_to_json(d) ==
    [alg |-> d.alg, type |-> d.type, to_iban |-> d.to_iban,
     deposit_amount |-> d.deposit_amount, deposit_date |-> d.deposit_date,
     deposit_signature |-> deposit_signature(d)]

\* re.fullmatch(r"^EUR [0-9]{4}\.[0-9]{2}", deposit_amount)
DepositAmountFullmatch(s) ==
    /\ Len(s) = 11
    /\ s[1] = "E" /\ s[2] = "U" /\ s[3] = "R" /\ s[4] = " "
    /\ \A i \in 5..8 : s[i] \in Digits
    /\ s[9] = "."
    /\ \A i \in 10..11 : s[i] \in Digits

\* DepositManager._validate_deposit_payload: <<iban, amount>> or the failure.
\* Subscripting a list or a number with a string raises TypeError.
validate_deposit_payload(deposit_data) ==
    IF deposit_data.type # "dict" THEN Raise("TypeError")
    ELSE IF ~({"IBAN", "AMOUNT"} \subseteq DOMAIN deposit_data.items) THEN Raise(MsgInvalidKey)
    ELSE LET Parsed(deposit_iban, deposit_amount, deposit_amount_float) ==
                 IF ~deposit_iban.ok THEN deposit_iban
                 ELSE IF ~DepositAmountFullmatch(deposit_amount) THEN Raise(MsgDepositAmount)
                 ELSE IF FloatEq(deposit_amount_float, FloatOfInt(0))
                      THEN Raise(MsgDepositZero)
                 ELSE Ok(<<deposit_iban.val, deposit_amount_float>>)
         IN  Parsed(ValidateIban(deposit_data.items.IBAN), deposit_data.items.AMOUNT,
                    FloatOf(SliceFrom(deposit_data.items.AMOUNT, 4)).val)

deposit_deduplicated(input, t, store) ==
    LET Saved(payload, deposit_obj, appended) ==
            IF \E i \in 1..Len(Records(store)) :
                  /\ Records(store)[i].to_iban = payload.val[1]
                  /\ Records(store)[i].deposit_amount = payload.val[2]
            THEN [res |-> Ok(deposit_signature(deposit_obj)), file |-> store]
            ELSE IF ~appended.res.ok THEN appended
            ELSE [res |-> Ok(deposit_signature(deposit_obj)), file |-> appended.file]
        Created(payload, deposit_obj) ==
            Saved(payload, deposit_obj, append_record(store, deposit_to_json(deposit_obj)))
        Validated(deposit_data, payload) ==
            IF ~deposit_data.ok THEN [res |-> deposit_data, file |-> store]
            ELSE IF ~payload.ok THEN [res |-> payload, file |-> store]
            ELSE Created(payload, AccountDeposit(payload.val[1], payload.val[2], t))
        Loaded(deposit_data) ==
            Validated(deposit_data,
                      IF deposit_data.ok THEN validate_deposit_payload(deposit_data.val)
                      ELSE deposit_data)
    IN  Loaded(load_json_strict(input))

\* DepositManager.deposit: the outcome and the deposit store after it
deposit(input, t, store) ==
    LET Saved(deposit_obj, appended) ==
            IF ~appended.res.ok THEN appended
            ELSE [res |-> Ok(deposit_signature(deposit_obj)), file |-> appended.file]
        Created(deposit_obj) ==
            Saved(deposit_obj, append_record(store, deposit_to_json(deposit_obj)))
        Validated(deposit_data, payload) ==
            IF ~deposit_data.ok THEN [res |-> deposit_data, file |-> store]
            ELSE IF ~payload.ok THEN [res |-> payload, file |-> store]
            ELSE Created(AccountDeposit(payload.val[1], payload.val[2], t))
        Loaded(deposit_data) ==
            Validated(deposit_data,
                      IF deposit_data.ok THEN validate_deposit_payload(deposit_data.val)
                      ELSE deposit_data)
    IN  Loaded(load_json_strict(input))

\* DepositService.process_deposit_file of target/dist: load_json_strict,
\* _validate_payload, _create_deposit and _save_deposit, which do what the
\* methods of DepositManager do
process_deposit_file(input, t, store) ==
    LET Saved(deposit_obj, appended) ==
            IF ~appended.res.ok THEN appended
            ELSE [res |-> Ok(deposit_signature(deposit_obj)), file |-> appended.file]
        Created(deposit_obj) ==
            Saved(deposit_obj, append_record(store, deposit_to_json(deposit_obj)))
        Validated(deposit_data, payload) ==
            IF ~deposit_data.ok THEN [res |-> deposit_data, file |-> store]
            ELSE IF ~payload.ok THEN [res |-> payload, file |-> store]
            ELSE Created(AccountDeposit(payload.val[1], payload.val[2], t))
        Loaded(deposit_data) ==
            Validated(deposit_data,
                      IF deposit_data.ok THEN validate_deposit_payload(deposit_data.val)
                      ELSE deposit_data)
    IN  Loaded(load_json_strict(input))

\* AccountManager.deposit_into_account of target/dist
deposit_into_account_of_service(input, t, store) == process_deposit_file(input, t, store)

\* AccountManager.deposit_into_account of src/main.  The input is opened
\* without a test of os.path.isfile, so a directory raises IsADirectoryError;
\* the keys, the IBAN, the amount and the store are handled as by
\* DepositManager, the store being read with read_json_file and rewritten
\* with write_json_file.
deposit_into_account(input, t, store) ==
    LET Saved(deposit_obj, deposit_list) ==
            IF ~deposit_list.ok THEN [res |-> deposit_list, file |-> store]
            ELSE IF deposit_list.val.type # "list"
                 THEN [res |-> Raise("AttributeError"), file |-> store]
            ELSE Returning(write_json(store, PyList(Append(deposit_list.val.items,
                                                           deposit_to_json(deposit_obj)))),
                           deposit_signature(deposit_obj))
        Validated(i_d, payload) ==
            IF ~i_d.ok THEN [res |-> i_d, file |-> store]
            ELSE IF ~payload.ok THEN [res |-> payload, file |-> store]
            ELSE Saved(AccountDeposit(payload.val[1], payload.val[2], t),
                       load_json_or_empty(store))
        Loaded(i_d) ==
            Validated(i_d, IF i_d.ok THEN validate_deposit_payload(i_d.val) ELSE i_d)
    IN  Loaded(IF input.kind \in {"missing", "noparent"} THEN Raise(MsgInputNotFound)
               ELSE IF input.kind = "directory" THEN Raise("IsADirectoryError")
               ELSE IF input.kind \in {"empty", "invalid"} THEN Raise(MsgJsonDecode)
               ELSE Ok(JsonLoad(input)))

----------------------------------------------------------------------------
(* Balances                                                                 *)

\* transaction.get("IBAN") == iban
TransactionMatches(transaction, iban) ==
    "IBAN" \in DOMAIN transaction /\ transaction.IBAN = iban

\* float(transaction.get("amount", 0)); amounts are whole numbers
TransactionAmount(transaction) ==
    IF "amount" \in DOMAIN transaction THEN transaction.amount ELSE 0

\* the loop of _calculate_balance: <<iban_found, balance>>
RECURSIVE SumMatching(_, _, _, _)
SumMatching(transactions, iban, iban_found, balance) ==
    IF Len(transactions) = 0 THEN <<iban_found, balance>>
    ELSE IF TransactionMatches(Head(transactions), iban)
         THEN SumMatching(Tail(transactions), iban, TRUE,
                          balance + TransactionAmount(Head(transactions)))
         ELSE SumMatching(Tail(transactions), iban, iban_found, balance)

calculate_balance_of_nonzero(iban, transactions) ==
    LET Summed(summed) == IF summed[2] = 0 THEN Raise(MsgIbanNotFound) ELSE Ok(summed[2])
        Iterated(iterated) ==
            IF ~iterated.ok THEN iterated
            ELSE Summed(SumMatching(iterated.val, iban, FALSE, 0))
    IN  Iterated(Iterable(transactions, "AttributeError"))

\* BalanceService._calculate_balance
calculate_balance_of(iban, transactions) ==
    LET Summed(summed) == IF ~summed[1] THEN Raise(MsgIbanNotFound) ELSE Ok(summed[2])
        Iterated(iterated) ==
            IF ~iterated.ok THEN iterated
            ELSE Summed(SumMatching(iterated.val, iban, FALSE, 0))
    IN  Iterated(Iterable(transactions, "AttributeError"))

balance_record(iban, t, balance) ==
    [IBAN |-> iban, time |-> Timestamp(t), BALANCE |-> FloatOfInt(balance)]

\* BalanceService._load_transactions
load_transactions(f) ==
    IF f.kind \in {"missing", "noparent", "directory"} THEN Raise(MsgWrongFile)
    ELSE load_json_or_empty(f)

\* BalanceService.calculate_and_save_balance (target/dist): the outcome and
\* the balances store after it
calculate_and_save_balance(iban, t, log, store) ==
    LET Saved(appended) ==
            IF ~appended.res.ok THEN appended
            ELSE [res |-> Ok(TRUE), file |-> appended.file]
        Calculated(validated_iban, balance) ==
            IF ~balance.ok THEN [res |-> balance, file |-> store]
            ELSE Saved(append_record(store, balance_record(validated_iban.val, t, balance.val)))
        Loaded(validated_iban, transactions) ==
            IF ~validated_iban.ok THEN [res |-> validated_iban, file |-> store]
            ELSE IF ~transactions.ok THEN [res |-> transactions, file |-> store]
            ELSE Calculated(validated_iban,
                            calculate_balance_of(validated_iban.val, transactions.val))
    IN  Loaded(ValidateIban(iban), load_transactions(log))

\* AccountManager.calculate_balance (src/main): the transaction log is read
\* with read_json_file, which gives the empty list for a missing file
calculate_balance(iban, t, log, store) ==
    LET Saved(last_balance, balance_list) ==
            IF ~balance_list.ok THEN [res |-> balance_list, file |-> store]
            ELSE IF balance_list.val.type # "list"
                 THEN [res |-> Raise("AttributeError"), file |-> store]
            ELSE Returning(write_json(store, PyList(Append(balance_list.val.items,
                                                           last_balance))),
                           TRUE)
        Calculated(validated_iban, balance) ==
            IF ~balance.ok THEN [res |-> balance, file |-> store]
            ELSE Saved(balance_record(validated_iban.val, t, balance.val),
                       load_json_or_empty(store))
        Loaded(validated_iban, transactions) ==
            IF ~validated_iban.ok THEN [res |-> validated_iban, file |-> store]
            ELSE IF ~transactions.ok THEN [res |-> transactions, file |-> store]
            ELSE Calculated(validated_iban,
                            calculate_balance_of(validated_iban.val, transactions.val))
    IN  Loaded(ValidateIban(iban), load_json_or_empty(log))

----------------------------------------------------------------------------
(* Inputs                                                                   *)

ConceptGood == <<"T", "r", "a", "n", "s", "f", "e", "r", " ", "p", "a", "y", "m", "e", "n", "t">>
ConceptOther == <<"M", "o", "n", "t", "h", "l", "y", " ", "r", "e", "n", "t">>
ConceptShort == <<"T", "o", "o", " ", "s", "h", "o", "r", "t">>
TypeMisspelt == <<"I", "M", "M", "E", "D", "I", "A", "T", "E">>

Date301250 == <<"3", "0", "/", "1", "2", "/", "2", "0", "5", "0">>
Date311250 == <<"3", "1", "/", "1", "2", "/", "2", "0", "5", "0">>
Date010151 == <<"0", "1", "/", "0", "1", "/", "2", "0", "5", "1">>

Amount250_75 == <<"2", "5", "0", ".", "7", "5">>
Amount10_000 == <<"1", "0", ".", "0", "0", "0">>
Amount9_99 == <<"9", ".", "9", "9">>
Amount10_001 == <<"1", "0", ".", "0", "0", "1">>
Amount1e2 == <<"1", "e", "2">>
AmountNan == <<"n", "a", "n">>
ConceptCarriageReturn ==
    <<"T", "r", "a", "n", "s", "f", "e", "r", "\r", "p", "a", "y", "m", "e", "n", "t">>

\* A submit-transfer request: the six arguments of the call
Request(f, t, c, ty, d, a) ==
    [from_iban |-> f, to_iban |-> t, concept |-> c, transfer_type |-> ty,
     date |-> d, amount |-> a]

\* a request whose amount is not a number
RequestNan == Request(IbanA, IbanB, ConceptGood, ORDINARY, Date311250, AmountNan)

\* every combination of a good and a bad value of each argument, and good
\* requests that differ from one of them in a single argument, among them
\* an amount written with an exponent and the amount nan
RequestsAll ==
    {Request(f, t, c, ty, d, a) :
        f \in {IbanA, IbanBadControl}, t \in {IbanB, IbanBadFormat},
        c \in {ConceptGood, ConceptShort}, ty \in {ORDINARY, TypeMisspelt},
        d \in {Date301250, Date311250, Date010151},
        a \in {Amount250_75, Amount9_99}}
    \cup {Request(IbanA, IbanB, ConceptGood, INMEDIATE, Date311250, Amount250_75),
          Request(IbanA, IbanB, ConceptCarriageReturn, ORDINARY, Date311250, Amount250_75),
          Request(IbanA, IbanB, ConceptGood, ORDINARY, Date311250, Amount1e2),
          RequestNan}

\* two good requests, and one request failing each check
RequestsFew ==
    {Request(IbanA, IbanB, ConceptGood, ORDINARY, Date311250, Amount250_75),
     Request(IbanB, IbanA, ConceptGood, INMEDIATE, Date301250, Amount10_000),
     Request(IbanBadFormat, IbanB, ConceptGood, ORDINARY, Date311250, Amount250_75),
     Request(IbanA, IbanBadControl, ConceptGood, ORDINARY, Date311250, Amount250_75),
     Request(IbanA, IbanB, ConceptShort, ORDINARY, Date311250, Amount250_75),
     Request(IbanA, IbanB, ConceptGood, TypeMisspelt, Date311250, Amount250_75),
     Request(IbanA, IbanB, ConceptGood, ORDINARY, Date010151, Amount250_75),
     Request(IbanA, IbanB, ConceptGood, ORDINARY, Date311250, Amount10_001)}

DepositAmount100_50 == <<"E", "U", "R", " ", "0", "1", "0", "0", ".", "5", "0">>
DepositAmountZero == <<"E", "U", "R", " ", "0", "0", "0", "0", ".", "0", "0">>
DepositAmountNoCents == <<"E", "U", "R", " ", "1", "0", "0">>

\* contents of the deposit input file
DepositInputs ==
    {FileMissing, FileDirectory, FileInvalid, FileArray(<<>>),
     FileObject([IBAN |-> IbanA]),
     FileObject([IBAN |-> IbanA, AMOUNT |-> DepositAmount100_50]),
     FileObject([IBAN |-> IbanB, AMOUNT |-> DepositAmount100_50]),
     FileObject([IBAN |-> IbanBadControl, AMOUNT |-> DepositAmount100_50]),
     FileObject([IBAN |-> IbanA, AMOUNT |-> DepositAmountNoCents]),
     FileObject([IBAN |-> IbanA, AMOUNT |-> DepositAmountZero])}

\* contents of the deposit input file for the implementations that differ
\* from DepositManager in how they open it only
DepositInputsFew ==
    {FileMissing, FileDirectory,
     FileObject([IBAN |-> IbanA, AMOUNT |-> DepositAmount100_50])}

\* contents of the transaction log
LogTwoForA == FileArray(<<[IBAN |-> IbanA, amount |-> 100], [IBAN |-> IbanA, amount |-> 50]>>)
LogZeroSum ==
    FileArray(<<[IBAN |-> IbanA, amount |-> 100], [IBAN |-> IbanB, amount |-> 30],
                [IBAN |-> IbanA, amount |-> -100]>>)
LogNoAmount == FileArray(<<[IBAN |-> IbanB], [amount |-> 7], [IBAN |-> IbanB, amount |-> 20]>>)

TransactionLogsFew == {FileMissing, FileInvalid, LogTwoForA}
TransactionLogsAll ==
    {FileMissing, FileDirectory, FileInvalid, FileArray(<<>>), FileObject(<<>>), FileNumber(5),
     LogTwoForA, LogZeroSum, LogNoAmount}

BalanceIbans == {IbanA, IbanB, IbanBadControl, IbanBadFormat}

----------------------------------------------------------------------------
(* Time                                                                     *)

FirstDay == <<2050, 12, 30>>
LastDay == <<2051, 1, 1>>

\* the calendar day after d
NextDay(d) ==
    IF d[3] < DaysInMonth(d[1], d[2]) THEN <<d[1], d[2], d[3] + 1>>
    ELSE IF d[2] < 12 THEN <<d[1], d[2] + 1, 1>>
    ELSE <<d[1] + 1, 1, 1>>

\* the most records the stores hold together
MaxRecords == 2

TotalRecords == Len(Records(transfers)) + Len(Records(deposits)) + Len(Records(balances))

----------------------------------------------------------------------------
(* State machine                                                            *)

\* Concurrent callers of append_record: pc[p] is the position of caller p in
\* it ("idle" before the call, "loaded" with the list read and the record
\* appended in memory, "done" after the rewrite, "failed" after an exception),
\* appending[p] its record argument and its local list records.
Appenders == {1, 2}
NoAppend == [record |-> <<>>, records |-> <<>>]

NoCall == [op |-> "none", args |-> <<>>, res |-> Ok(<<>>)]

InitWith(logs) ==
    /\ today = FirstDay
    /\ clock = 0
    /\ transfers = FileMissing
    /\ deposits = FileMissing
    /\ balances = FileMissing
    /\ txlog \in logs
    /\ depinput = FileMissing
    /\ last = NoCall
    /\ pc = [p \in Appenders |-> "idle"]
    /\ appending = [p \in Appenders |-> NoAppend]

\* a day passes: the UTC date moves to the next day and the clock, in seconds
\* since the start of FirstDay, by 86400
AdvanceDay ==
    /\ DateLess(today, LastDay)
    /\ today' = NextDay(today)
    /\ clock' = clock + 86400
    /\ UNCHANGED <<pc, appending, transfers, deposits, balances, txlog, depinput, last>>

\* TransferManager().create_transfer(...)
CreateTransfer(requests) ==
    /\ TotalRecords < MaxRecords
    /\ \E r \in requests :
         LET Done(out) ==
                 /\ transfers' = out.file
                 /\ last' = [op |-> "create_transfer", args |-> r, res |-> out.res]
         IN  Done(create_transfer(r.from_iban, r.to_iban, r.concept, r.transfer_type, r.date,
                  r.amount, today, clock, transfers))
    /\ UNCHANGED <<pc, appending, today, clock, deposits, balances, txlog, depinput>>

\* AccountManager().transfer_request(...) of src/main
TransferRequestCall(requests) ==
    /\ TotalRecords < MaxRecords
    /\ \E r \in requests :
         LET Done(out) ==
                 /\ transfers' = out.file
                 /\ last' = [op |-> "transfer_request", args |-> r, res |-> out.res]
         IN  Done(transfer_request(r.from_iban, r.to_iban, r.concept, r.transfer_type, r.date,
                  r.amount, today, clock, transfers))
    /\ UNCHANGED <<pc, appending, today, clock, deposits, balances, txlog, depinput>>

\* DepositManager().deposit(path), the file at path holding f
Deposit(inputs) ==
    /\ TotalRecords < MaxRecords
    /\ \E f \in inputs :
         LET Done(out) ==
                 /\ depinput' = f
                 /\ deposits' = out.file
                 /\ last' = [op |-> "deposit", args |-> f, res |-> out.res]
         IN  Done(deposit(f, clock, deposits))
    /\ UNCHANGED <<pc, appending, today, clock, transfers, balances, txlog>>

\* DepositService().process_deposit_file(path) of target/dist
ProcessDepositFile(inputs) ==
    /\ TotalRecords < MaxRecords
    /\ \E f \in inputs :
         LET Done(out) ==
                 /\ depinput' = f
                 /\ deposits' = out.file
                 /\ last' = [op |-> "process_deposit_file", args |-> f, res |-> out.res]
         IN  Done(process_deposit_file(f, clock, deposits))
    /\ UNCHANGED <<pc, appending, today, clock, transfers, balances, txlog>>

\* AccountManager().deposit_into_account(path) of target/dist
DepositIntoAccountOfService(inputs) ==
    /\ TotalRecords < MaxRecords
    /\ \E f \in inputs :
         LET Done(out) ==
                 /\ depinput' = f
                 /\ deposits' = out.file
                 /\ last' = [op |-> "deposit_into_account_of_service", args |-> f,
                             res |-> out.res]
         IN  Done(deposit_into_account_of_service(f, clock, deposits))
    /\ UNCHANGED <<pc, appending, today, clock, transfers, balances, txlog>>

\* AccountManager().deposit_into_account(path) of src/main
DepositIntoAccount(inputs) ==
    /\ TotalRecords < MaxRecords
    /\ \E f \in inputs :
         LET Done(out) ==
                 /\ depinput' = f
                 /\ deposits' = out.file
                 /\ last' = [op |-> "deposit_into_account", args |-> f, res |-> out.res]
         IN  Done(deposit_into_account(f, clock, deposits))
    /\ UNCHANGED <<pc, appending, today, clock, transfers, balances, txlog>>

CalculateAndSaveBalance_into_log ==
    /\ TotalRecords < MaxRecords
    /\ \E iban \in BalanceIbans :
         LET Done(out) ==
                 /\ txlog' = out.file
                 /\ last' = [op |-> "calculate_and_save_balance", args |-> iban, res |-> out.res]
         IN  Done(calculate_and_save_balance(iban, clock, txlog, txlog))
    /\ UNCHANGED <<pc, appending, today, clock, transfers, deposits, balances, depinput>>

\* BalanceService().calculate_and_save_balance(iban) of target/dist
CalculateAndSaveBalance ==
    /\ TotalRecords < MaxRecords
    /\ \E iban \in BalanceIbans :
         LET Done(out) ==
                 /\ balances' = out.file
                 /\ last' = [op |-> "calculate_and_save_balance", args |-> iban, res |-> out.res]
         IN  Done(calculate_and_save_balance(iban, clock, txlog, balances))
    /\ UNCHANGED <<pc, appending, today, clock, transfers, deposits, txlog, depinput>>

\* AccountManager().calculate_balance(iban) of src/main
CalculateBalance ==
    /\ TotalRecords < MaxRecords
    /\ \E iban \in BalanceIbans :
         LET Done(out) ==
                 /\ balances' = out.file
                 /\ last' = [op |-> "calculate_balance", args |-> iban, res |-> out.res]
         IN  Done(calculate_balance(iban, clock, txlog, balances))
    /\ UNCHANGED <<pc, appending, today, clock, transfers, deposits, txlog, depinput>>

\* the three entry points on one set of stores
Init == InitWith(TransactionLogsFew)

Next ==
    \/ AdvanceDay
    \/ CreateTransfer(RequestsFew)
    \/ TransferRequestCall(RequestsFew)
    \/ Deposit(DepositInputs)
    \/ DepositIntoAccount(DepositInputsFew)
    \/ CalculateAndSaveBalance
    \/ CalculateBalance

Spec == Init /\ [][Next]_vars

\* submit-deposit alone, in its four implementations
InitDeposit == InitWith({FileMissing})

NextDeposit ==
    \/ AdvanceDay
    \/ Deposit(DepositInputs)
    \/ ProcessDepositFile(DepositInputs)
    \/ DepositIntoAccountOfService(DepositInputs)
    \/ DepositIntoAccount(DepositInputs)

SpecDeposit == InitDeposit /\ [][NextDeposit]_vars

\* submit-transfer alone, on every combination of good and bad arguments
\* the transfer store does not exist yet or holds an empty array
InitTransfer ==
    /\ today = FirstDay
    /\ clock = 0
    /\ transfers \in {FileMissing, FileArray(<<>>)}
    /\ deposits = FileMissing
    /\ balances = FileMissing
    /\ txlog = FileMissing
    /\ depinput = FileMissing
    /\ last = NoCall
    /\ pc = [p \in Appenders |-> "idle"]
    /\ appending = [p \in Appenders |-> NoAppend]

NextTransfer ==
    \/ AdvanceDay
    \/ CreateTransfer(RequestsAll)
    \/ TransferRequestCall(RequestsFew \cup {RequestNan})

SpecTransfer == InitTransfer /\ [][NextTransfer]_vars

\* compute-balance alone, on every kind of transaction log
InitBalance == InitWith(TransactionLogsAll)

NextBalance ==
    \/ AdvanceDay
    \/ CalculateAndSaveBalance
    \/ CalculateBalance

SpecBalance == InitBalance /\ [][NextBalance]_vars

----------------------------------------------------------------------------
(* The validators and the store reader on their own                         *)

TwoDigits(n) == <<DigitChars[(n \div 10) + 1], DigitChars[(n % 10) + 1]>>

\* strftime("%d/%m/%Y") of day d, month m, year y
FormatDate(d, m, y) == TwoDigits(d) \o <<"/">> \o TwoDigits(m) \o <<"/">> \o NatStr(y)

\* dates written with decimal digits of another script
DateInputsOther ==
    {<<"1", "1", "/", "0", "1", "/", "2", "0", "U+0663", "0">>,
     <<"1", "U+0661", "/", "0", "1", "/", "2", "0", "3", "0">>,
     <<"1", "1", "/", "0", "1", "/", "U+0662", "U+0660", "U+0663", "U+0660">>,
     <<"0", "U+0661", "/", "0", "1", "/", "2", "0", "3", "0">>,
     <<"1", "1", "/", "0", "U+0661", "/", "2", "0", "3", "0">>,
     <<"3", "U+0661", "/", "0", "1", "/", "2", "0", "3", "0">>,
     <<"1", "1", "/", "1", "U+0661", "/", "2", "0", "3", "0">>,
     <<"U+0661", "U+0661", "/", "0", "1", "/", "2", "0", "3", "0">>,
     <<"1", "1", "/", "U+0660", "U+0661", "/", "2", "0", "3", "0">>,
     <<"2", "U+0669", "/", "0", "2", "/", "2", "0", "2", "8">>,
     <<"2", "U+0669", "/", "0", "2", "/", "2", "0", "2", "6">>,
     <<"1", "1", "/", "0", "1", "/", "U+0660", "U+0660", "U+0660", "U+0660">>}

\* strings of the DD/MM/YYYY shape, real dates or not, and strings of other shapes
DateInputs ==
    {FormatDate(d, m, y) : d \in {0, 1, 28, 29, 30, 31, 32}, m \in {0, 1, 2, 12, 13},
                           y \in {2020, 2024, 2025, 2028, 2050, 2051, 2060}}
    \cup {<<"2", "0", "2", "4", "-", "1", "2", "-", "2", "5">>, <<"1", "/", "1", "/", "2", "0", "2", "6">>, <<"0", "1", "/", "0", "1", "/", "0", "0", "0", "0">>,
          <<"0", "1", "-", "0", "1", "-", "2", "0", "2", "6">>, <<"0", "1", "/", "0", "1", "/", "2", "6">>, <<"0", "1", "/", "0", "1", "/", "2", "0", "2", "6", " ">>, <<>>}
    \cup DateInputsOther

\* current UTC dates
NowInputs == {<<2024, 12, 31>>, <<2025, 1, 1>>, <<2028, 2, 29>>, <<2050, 12, 31>>, <<2051, 1, 1>>}

\* amounts written with an exponent, a sign, surrounding whitespace,
\* underscores, digits of other scripts or more digits than a float holds,
\* and the names of the infinities and of nan
AmountInputsOther ==
    {<<"1", "e", "2">>,
     <<"1", "E", "+", "1">>,
     <<"1", "0", "0", "0", "5", "e", "-", "3">>,
     <<".", "1", "e", "3">>,
     <<"1", "e", "4", "0", "0">>,
     <<"1", "e", "-", "5">>,
     <<"+", "1", "0">>,
     <<"-", "1", "0">>,
     <<" ", "1", "0", " ">>,
     <<"U+00A0", "1", "0">>,
     <<"U+001C", "1", "0">>,
     <<"1", "_", "0">>,
     <<"1", "_", "_", "0">>,
     <<"1", "_", "0", "0", "0", ".", "5">>,
     <<"n", "a", "n">>,
     <<"-", "n", "a", "n">>,
     <<"N", "a", "N">>,
     <<"i", "n", "f">>,
     <<"I", "n", "f", "i", "n", "i", "t", "y">>,
     <<"-", "i", "n", "f">>,
     <<"U+0661", "U+0660">>,
     <<"1", "0", ".", "0", "U+0661">>,
     <<"1", "0", ".", "0", "0", "U+0661">>,
     <<"1", "0", ".", "0", "0", "0", "0", "0", "0", "0", "0", "0", "0", "0", "0", "0", "0", "0", "0", "0", "0", "1">>,
     <<"2", "5", "0", ".", "7", "5", "0", "0", "0", "0", "0", "0", "0", "0", "0", "0", "0", "0", "0", "0", "0", "1">>,
     <<"9", ".", "9", "9", "9", "9", "9", "9", "9", "9", "9", "9", "9", "9", "9", "9", "9", "9", "9", "9", "9">>,
     <<"1", "0", "0", "0", "0", ".", "0", "0", "0", "0", "0", "0", "0", "0", "0", "0", "0", "0", "0", "0", "0", "1">>,
     <<"1", "0", ".", "0", "0", "5">>,
     <<"0", "x", "1", "0">>,
     <<"1", "e">>,
     <<"1", "0", ".">>}

\* amounts as text: plain decimal numerals, and strings that are no number
AmountInputs ==
    {Amount250_75, Amount10_000, Amount9_99, Amount10_001,
     <<"1", "0", "0", ".", "5", "0", "0">>, <<"1", "0">>, <<"1", "0", ".", "0">>, <<"1", "0", ".", "0", "0">>, <<"1", "0", ".">>, <<"9", ".", "9", "9", "9">>, <<"1", "0", ".", "1", "2", "3">>, <<"1", "0", "0", "0", "0">>, <<"1", "0", "0", "0", "0", ".", "0">>,
     <<"1", "0", "0", "0", "0", ".", "0", "0">>, <<"1", "0", "0", "0", "0", ".", "0", "0", "0">>, <<"1", "0", "0", "0", "0", ".", "0", "1">>, <<"1", "0", "0", "0", "0", ".", "0", "0", "1">>, <<"0", "0", "1", "0", ".", "5", "0">>, <<"2", "5", "0", ".", "7">>, <<"2", "5", "0", ".", "7", "5", "0">>, <<"2", "5", "0", ".", "7", "0", "5">>, <<".", "5">>,
     <<"a", "b", "c">>, <<"1", "0", ".", "5", ".", "5">>, <<".">>, <<"1", "2", "a">>, <<>>}
    \cup AmountInputsOther

\* concepts: one and several words, one and several separators, lengths
\* around 10 and 30, characters that are no letters
ConceptInputs ==
    {<<"T", "r", "a", "n", "s", "f", "e", "r", " ", "p", "a", "y", "m", "e", "n", "t">>,
     <<"T", "o", "o", " ", "s", "h", "o", "r", "t">>,
     <<"i", "n", "v", "a", "l", "i", "d", "1", "2", "3", "c", "o", "n", "c", "e", "p", "t">>,
     <<"M", "o", "n", "t", "h", "l", "y", " ", "r", "e", "n", "t">>,
     <<"T", "r", "a", "n", "s", "f", "e", "r", " ", " ", "p", "a", "y", "m", "e", "n", "t">>,
     <<"T", "r", "a", "n", "s", "f", "e", "r", "\t", "p", "a", "y", "m", "e", "n", "t">>,
     <<"T", "r", "a", "n", "s", "f", "e", "r", "\n", "p", "a", "y", "m", "e", "n", "t">>,
     <<" ", "T", "r", "a", "n", "s", "f", "e", "r", " ", "p", "a", "y", "m", "e", "n", "t">>,
     <<"T", "r", "a", "n", "s", "f", "e", "r", " ", "p", "a", "y", "m", "e", "n", "t", " ">>,
     <<"S", "i", "n", "g", "l", "e", "w", "o", "r", "d", "c", "o", "n", "c", "e", "p", "t">>,
     <<"a", "b", "c", "d", "e", " ", "f", "g", "h", "i">>,
     <<"a", "b", "c", "d", " ", "f", "g", "h", "i">>,
     <<"a", " ", "b", " ", "c", " ", "d", " ", "e", " ", "f">>,
     <<"T", "R", "A", "N", "S", "F", "E", "R", " ", "P", "A", "Y", "M", "E", "N", "T">>,
     <<"T", "r", "a", "n", "s", "f", "e", "r", " ", "p", "a", "y", "m", "e", "n", "t", "1">>,
     <<"T", "r", "a", "n", "s", "f", "e", "r", "-", "p", "a", "y", "m", "e", "n", "t", " ", "o", "k">>,
     <<"a", "b", "c", "d", "e", "f", "g", "h", "i", "j", " ", "k", "l", "m", "n", "o", "p", "q", "r", "s", "t", " ", "u", "v", "w", "x", "y", "z", "a", "b">>,
     <<"a", "b", "c", "d", "e", "f", "g", "h", "i", "j", " ", "k", "l", "m", "n", "o", "p", "q", "r", "s", "t", " ", "u", "v", "w", "x", "y", "z", "a", "b", "c">>,
     <<"P", "a", "y", " ", "\t", " ", "r", "e", "n", "t", " ", "n", "o", "w">>,
     <<"T", "r", "a", "n", "s", "f", "e", "r", "\r", "p", "a", "y", "m", "e", "n", "t">>,
     <<"T", "r", "a", "n", "s", "f", "e", "r", "\f", "p", "a", "y", "m", "e", "n", "t">>,
     <<"T", "r", "a", "n", "s", "f", "e", "r", "U+000B", "p", "a", "y", "m", "e", "n", "t">>,
     <<"T", "r", "a", "n", "s", "f", "e", "r", "U+001C", "p", "a", "y", "m", "e", "n", "t">>,
     <<"T", "r", "a", "n", "s", "f", "e", "r", "U+00A0", "p", "a", "y", "m", "e", "n", "t">>,
     <<"T", "r", "a", "n", "s", "f", "e", "r", "U+2003", "p", "a", "y", "m", "e", "n", "t">>,
     <<"T", "r", "a", "n", "s", "f", "e", "r", "U+3000", "p", "a", "y", "m", "e", "n", "t", " ", "n", "o", "w">>,
     <<"T", "r", "a", "n", "s", "f", "e", "r", "U+200B", "p", "a", "y", "m", "e", "n", "t">>,
     <<"T", "r", "a", "n", "s", "f", "U+00E9", "r", " ", "p", "a", "y", "m", "e", "n", "t">>,
     <<"T", "r", "a", "n", "s", "f", "e", "r", "\r", "\n", "p", "a", "y", "m", "e", "n", "t">>,
     <<>>}

\* values of datetime.timestamp(...): 0.0, 0.01 and 1.0 seconds
TimestampInputs == {FloatOfInt(0), FloatOf(<<"0", ".", "0", "1">>).val, FloatOfInt(1)}

\* validated amounts: 123.0, 23.0 and 250.75
ValidatedAmountInputs ==
    {validate_amount(s).val : s \in {<<"1", "2", "3">>, <<"2", "3">>, Amount250_75}}

\* a TransferRequest whose time_stamp is ts
RequestAt(from_iban, to_iban, amount, ts) ==
    [TransferRequest(from_iban, to_iban, ConceptGood, ORDINARY, Date301250, amount, 0)
        EXCEPT !.time_stamp = ts]

TransferRequestInputs ==
    {RequestAt(f, t, a, ts) : f \in {IbanA, IbanB}, t \in {IbanA, IbanB},
                              a \in ValidatedAmountInputs, ts \in TimestampInputs}

\* contents of a store file
FileInputs ==
    {FileMissing, FileNoParent, FileDirectory, FileEmpty, FileInvalid, FileArray(<<>>),
     FileObject(<<>>), FileNumber(5),
     FileObject([IBAN |-> IbanA]), LogTwoForA, LogZeroSum, LogNoAmount}

\* what a direct caller of write_json finds at the path
PathInputs == {FileMissing, FileNoParent, FileDirectory, LogTwoForA}

\* what a direct caller of write_json gives as data
DataInputs ==
    <<PyList(<<>>), PyList(LogZeroSum.items), PyDict([IBAN |-> IbanA]), PyNumber(5), PySet,
      PyList(<<PySet>>)>>

\* one call of a validator, of the reader or of the writer, at any current
\* date
InitFn ==
    /\ today \in NowInputs
    /\ clock = 0
    /\ transfers \in PathInputs
    /\ deposits = FileMissing
    /\ balances = FileMissing
    /\ txlog = FileMissing
    /\ depinput = FileMissing
    /\ last = NoCall
    /\ pc = [p \in Appenders |-> "idle"]
    /\ appending = [p \in Appenders |-> NoAppend]

CallValidateIban ==
    /\ last = NoCall
    /\ \E s \in IbanInputs :
         last' = [op |-> "validate_iban", args |-> s, res |-> validate_iban(s)]
    /\ UNCHANGED <<pc, appending, today, clock, transfers, deposits, balances, txlog, depinput>>

CallValidateTransferDate ==
    /\ last = NoCall
    /\ \E s \in DateInputs :
         last' = [op |-> "validate_transfer_date", args |-> s,
                  res |-> validate_transfer_date(s, today)]
    /\ UNCHANGED <<pc, appending, today, clock, transfers, deposits, balances, txlog, depinput>>

CallValidateAmount ==
    /\ last = NoCall
    /\ \E s \in AmountInputs :
         last' = [op |-> "validate_amount", args |-> s, res |-> validate_amount(s)]
    /\ UNCHANGED <<pc, appending, today, clock, transfers, deposits, balances, txlog, depinput>>

CallValidateConcept ==
    /\ last = NoCall
    /\ \E s \in ConceptInputs :
         last' = [op |-> "validate_concept", args |-> s, res |-> validate_concept(s)]
    /\ UNCHANGED <<pc, appending, today, clock, transfers, deposits, balances, txlog, depinput>>

\* the codes of two TransferRequest objects
CallTransferCode ==
    /\ last = NoCall
    /\ \E r1 \in TransferRequestInputs, r2 \in TransferRequestInputs :
         last' = [op |-> "transfer_code", args |-> <<r1, r2>>,
                  res |-> Ok(<<transfer_code(r1), transfer_code(r2)>>)]
    /\ UNCHANGED <<pc, appending, today, clock, transfers, deposits, balances, txlog, depinput>>

CallLoadJsonOrEmpty ==
    /\ last = NoCall
    /\ \E f \in FileInputs :
         last' = [op |-> "load_json_or_empty", args |-> f, res |-> load_json_or_empty(f)]
    /\ UNCHANGED <<pc, appending, today, clock, transfers, deposits, balances, txlog, depinput>>

\* write_json(file_path, data), or AccountManager().write_json_file(file_path,
\* data), called on the path of a store with any data
CallWriteJson ==
    /\ last = NoCall
    /\ \E i \in DOMAIN DataInputs :
         LET Done(out) ==
                 /\ transfers' = out.file
                 /\ last' = [op |-> "write_json", args |-> DataInputs[i], res |-> out.res]
         IN  Done(write_json(transfers, DataInputs[i]))
    /\ UNCHANGED <<pc, appending, today, clock, deposits, balances, txlog, depinput>>

NextFn ==
    \/ CallWriteJson
    \/ CallValidateIban
    \/ CallValidateTransferDate
    \/ CallValidateAmount
    \/ CallValidateConcept
    \/ CallTransferCode
    \/ CallLoadJsonOrEmpty

SpecFn == InitFn /\ [][NextFn]_vars

----------------------------------------------------------------------------
(* Two callers of append_record on the transfer store, not serialized       *)

\* The number of characters json.dumps writes for the characters of a str
\* (ensure_ascii): two for the quote, the backslash and the controls with a
\* short escape (\b \t \n \f \r), one for any other character from the space
\* to the tilde, six (\uXXXX) for any other character of the basic plane and
\* twelve (a surrogate pair) for a character beyond it.
RECURSIVE JsonCharsSize(_)
JsonCharsSize(s) ==
    IF s = <<>> THEN 0
    ELSE (IF Head(s) \in {"\"", "\\", "U+0008", "\t", "\n", "\f", "\r"} THEN 2
          ELSE IF Len(Head(s)) = 1 THEN 1
          ELSE IF Len(Head(s)) = 6 THEN 6
          ELSE 12)
         + JsonCharsSize(Tail(s))

\* The number of characters of the text json.dump(records, file, indent=2)
\* writes for a list of records of to_json: "[]" for no record; else "[",
\* the records, each on new lines at two spaces between "{" and "}" with its
\* members on lines of their own at four spaces as "key": value, commas
\* between records and between members, and a new line and "]".  A str is
\* written between quotes and a float as float.__repr__ gives it, but for
\* NaN, Infinity and -Infinity; the transfer_code is the 32 digits of an
\* md5 hexdigest.
JsonSize(records) ==
    LET JsonStrSize(s) == 2 + JsonCharsSize(s)
        JsonFloatSize(x) ==
            IF x.kind = "nan" THEN 3
            ELSE IF x.kind = "inf" THEN (IF x.neg THEN 9 ELSE 8)
            ELSE Len(FloatStr(x))
        Member(key, value) == 1 + 4 + (2 + Len(key)) + 2 + value
        Item(r) ==
            1 + 2 + 1
            + Member("from_iban", JsonStrSize(r.from_iban)) + 1
            + Member("to_iban", JsonStrSize(r.to_iban)) + 1
            + Member("transfer_concept", JsonStrSize(r.transfer_concept)) + 1
            + Member("transfer_type", JsonStrSize(r.transfer_type)) + 1
            + Member("transfer_date", JsonStrSize(r.transfer_date)) + 1
            + Member("transfer_amount", JsonFloatSize(r.transfer_amount)) + 1
            + Member("time_stamp", JsonFloatSize(r.time_stamp)) + 1
            + Member("transfer_code", 2 + 32)
            + 1 + 2 + 1
        RECURSIVE Items(_)
        Items(s) == IF s = <<>> THEN 0 ELSE Item(Head(s)) + Items(Tail(s))
    IN  IF records = <<>> THEN 2
        ELSE 1 + Items(records) + (Len(records) - 1) + 1 + 1

\* The file after a caller that opened it writes document and closes it.
\* The text of a store is shorter than the buffer of the file object (8192
\* characters), so all of it is written by the close, in one write, at the
\* start of the file; the file holds no byte at that time, or the document
\* another caller wrote since this caller opened it.  The write replaces
\* as many characters as the document has and leaves the rest: over a
\* document that is longer, the file ends with the tail of that one after
\* the "]" of this one, which is not JSON.
WrittenOver(f, document) ==
    IF f.kind = "array" /\ JsonSize(f.items) > JsonSize(document.items) THEN FileInvalid
    ELSE document

\* the record caller p appends: transfers out of IbanA for caller 1, out of
\* IbanB for caller 2
AppenderRecords(p) ==
    {to_json(TransferRequest(IF p = 1 THEN IbanA ELSE IbanB, IF p = 1 THEN IbanB ELSE IbanA,
                             c, ORDINARY, Date301250, validate_amount(a).val, 0)) :
        c \in {ConceptGood, ConceptOther}, a \in {Amount250_75, Amount10_000}}

\* a record stored before either caller starts
EarlierRecord ==
    to_json(TransferRequest(IbanA, IbanA, ConceptGood, URGENT, Date311250,
                            validate_amount(Amount250_75).val, 0))

StoresBefore ==
    {FileMissing, FileNoParent, FileEmpty, FileInvalid, FileArray(<<>>),
     FileArray(<<EarlierRecord>>)}

InitAppend ==
    /\ today = FirstDay
    /\ clock = 0
    /\ transfers \in StoresBefore
    /\ deposits = FileMissing
    /\ balances = FileMissing
    /\ txlog = FileMissing
    /\ depinput = FileMissing
    /\ last = NoCall
    /\ pc = [p \in Appenders |-> "idle"]
    /\ appending = [p \in Appenders |-> NoAppend]

\* records = load_json_or_empty(file_path); records.append(record).  A
\* caller that fails raises the exception of load_json_or_empty, or
\* AttributeError on a value that is no list.  The text of a store is read
\* by one read; the read after it, which looks for the end of the file,
\* returns the tail of a longer document that was written in between, and
\* the caller then fails with the JSON decode error as it does on the file
\* of no bytes between the open and the dump of that document.
AppendLoad(p) ==
    /\ pc[p] = "idle"
    /\ \E record \in AppenderRecords(p) :
         LET loaded == load_json_or_empty(transfers)
         IN  IF loaded.ok /\ loaded.val.type = "list"
             THEN /\ pc' = [pc EXCEPT ![p] = "loaded"]
                  /\ appending' = [appending EXCEPT
                                     ![p] = [record |-> record,
                                             records |-> Append(loaded.val.items, record)]]
             ELSE /\ pc' = [pc EXCEPT ![p] = "failed"]
                  /\ appending' = [appending EXCEPT
                                     ![p] = [record |-> record, records |-> <<>>]]
    /\ UNCHANGED <<today, clock, transfers, deposits, balances, txlog, depinput, last>>

\* write_json(file_path, records), up to open(file_path, "w"): FileNotFoundError
\* where the directory of the path does not exist; else the file is there
\* and holds no byte, whatever it held, and nothing of records is in it yet
AppendOpen(p) ==
    /\ pc[p] = "loaded"
    /\ IF transfers.kind = "noparent"
       THEN /\ pc' = [pc EXCEPT ![p] = "failed"]
            /\ UNCHANGED transfers
       ELSE /\ pc' = [pc EXCEPT ![p] = "opened"]
            /\ transfers' = FileEmpty
    /\ UNCHANGED <<today, clock, deposits, balances, txlog, depinput, last, appending>>

AppendDump_merging(p) ==
    /\ pc[p] = "opened"
    /\ transfers' = JsonDump(PyList(Append(Records(transfers), appending[p].record)))
    /\ pc' = [pc EXCEPT ![p] = "done"]
    /\ UNCHANGED <<today, clock, deposits, balances, txlog, depinput, last, appending>>

\* write_json(file_path, records), from json.dump(data, file, indent=2) to
\* the close of the file
AppendDump(p) ==
    /\ pc[p] = "opened"
    /\ transfers' = WrittenOver(transfers, JsonDump(PyList(appending[p].records)))
    /\ pc' = [pc EXCEPT ![p] = "done"]
    /\ UNCHANGED <<today, clock, deposits, balances, txlog, depinput, last, appending>>

NextAppend ==
    \/ \E p \in Appenders : AppendLoad(p)
    \/ \E p \in Appenders : AppendOpen(p)
    \/ \E p \in Appenders : AppendDump(p)

SpecAppend == InitAppend /\ [][NextAppend]_vars

----------------------------------------------------------------------------
(* Properties                                                               *)

Failed(res, msg) == ~res.ok /\ res.err = msg
Returned(res, v) == res.ok /\ res.val = v

\* "ES" followed by 22 digits
IsEs22(s) ==
    /\ Len(s) = 24
    /\ SubSeq(s, 1, 2) = <<"E", "S">>
    /\ \A i \in 3..24 : s[i] \in Digits

\* N mod 97 for N the numeral of the last 20 digits followed by 142800
BodyMod97(s) == NumeralMod97(SubSeq(s, 5, 24) \o <<"1", "4", "2", "8", "0", "0">>, 0)

\* C10: validate_iban fails with "Invalid IBAN format" on every string that is
\* not "ES" and 22 digits; on a string of that shape it returns the string
\* unchanged exactly when the number of characters [2:4] is 98 - (N mod 97),
\* and fails with "Invalid IBAN control digit" otherwise.
C10_IbanValidation ==
    last.op = "validate_iban" =>
        LET s == last.args
        IN  /\ ~IsEs22(s) => Failed(last.res, MsgIbanFormat)
            /\ IsEs22(s) =>
                 LET matches == DigitVal(s[3]) * 10 + DigitVal(s[4]) = 98 - BodyMod97(s)
                 IN  /\ matches => Returned(last.res, s)
                     /\ ~matches => Failed(last.res, MsgIbanControl)

\* the fixed example validated, and its control digits zeroed rejected
C10_Witness ==
    /\ last.op = "validate_iban"
    /\ \/ last.args = IbanA /\ last.res.ok
       \/ last.args = IbanBadControl /\ ~last.res.ok

\* a string of the DD/MM/YYYY shape, written with the digits 0 to 9, that
\* names a day of the calendar
IsRealDate(s) ==
    /\ Len(s) = 10
    /\ s[3] = "/" /\ s[6] = "/"
    /\ \A i \in {1, 2, 4, 5, 7, 8, 9, 10} : s[i] \in Digits
    /\ IntOf(SubSeq(s, 7, 10)) >= 1
    /\ IntOf(SubSeq(s, 4, 5)) \in 1..12
    /\ IntOf(SubSeq(s, 1, 2)) \in 1..DaysInMonth(IntOf(SubSeq(s, 7, 10)), IntOf(SubSeq(s, 4, 5)))

YearOf(s) == IntOf(SubSeq(s, 7, 10))
DateOf(s) == <<YearOf(s), IntOf(SubSeq(s, 4, 5)), IntOf(SubSeq(s, 1, 2))>>

\* C7 as stated: a real date with a year outside [2025, 2050] fails with an
\* error of its own kind, neither "Invalid date format" nor the past-date
\* error, and a date of 2025 or 2050 is not rejected with that error.
C7_YearErrorIsDistinct ==
    (last.op = "validate_transfer_date" /\ IsRealDate(last.args)) =>
        /\ (YearOf(last.args) < 2025 \/ YearOf(last.args) > 2050) =>
              /\ ~last.res.ok
              /\ last.res.err \notin {MsgDateFormat, MsgPastDate}
        /\ YearOf(last.args) \in {2025, 2050} =>
              (last.res.ok \/ last.res.err = MsgPastDate)

\* C7, amended: a real date with a year outside [2025, 2050] always fails,
\* with the past-date error when it is before the current UTC date and
\* otherwise with "Invalid date format", the error of a malformed date; a real
\* date of 2025 or 2050 is returned unless it is before the current date.
C7_YearOutOfRange ==
    (last.op = "validate_transfer_date" /\ IsRealDate(last.args)) =>
        LET past == DateLess(DateOf(last.args), today)
        IN  /\ (YearOf(last.args) < 2025 \/ YearOf(last.args) > 2050) =>
                  /\ past => Failed(last.res, MsgPastDate)
                  /\ ~past => Failed(last.res, MsgDateFormat)
            /\ YearOf(last.args) \in {2025, 2050} =>
                  /\ past => Failed(last.res, MsgPastDate)
                  /\ ~past => Returned(last.res, last.args)

\* a date of 2051 that is not in the past, rejected as a malformed date
C7_Witness ==
    /\ last.op = "validate_transfer_date"
    /\ IsRealDate(last.args)
    /\ YearOf(last.args) = 2051
    /\ ~DateLess(DateOf(last.args), today)
    /\ Failed(last.res, MsgDateFormat)

\* a plain decimal numeral of at most 15 characters, the digits written
\* after its point, and those that remain when trailing zeros are dropped
IsNumeral(s) ==
    /\ Len(s) <= 15
    /\ AllIn(s, Digits \cup {"."})
    /\ Cardinality({i \in 1..Len(s) : s[i] = "."}) <= 1
    /\ \E i \in 1..Len(s) : s[i] \in Digits

PointAt(s) == IF \E i \in 1..Len(s) : s[i] = "." THEN CHOOSE i \in 1..Len(s) : s[i] = "."
              ELSE Len(s) + 1
WrittenFraction(s) == SubSeq(s, PointAt(s) + 1, Len(s))
NeededFraction(s) ==
    LET kept == {i \in 1..Len(WrittenFraction(s)) : WrittenFraction(s)[i] # "0"}
    IN  IF kept = {} THEN <<>> ELSE SubSeq(WrittenFraction(s), 1, MaxOf(kept))

\* the whole part of a numeral without its leading zeros
WholePart(s) ==
    LET kept == {i \in 1..(PointAt(s) - 1) : s[i] # "0"}
    IN  IF kept = {} THEN <<>> ELSE SubSeq(s, MinOf(kept), PointAt(s) - 1)

\* the value of a numeral lies in [10, 10000]
InAmountRange(s) ==
    \/ Len(WholePart(s)) \in 2..4
    \/ WholePart(s) = <<"1", "0", "0", "0", "0">> /\ NeededFraction(s) = <<>>

\* the float a numeral in that range names
NumeralValue(s) ==
    LET digits == [i \in 1..Len(WholePart(s) \o NeededFraction(s)) |->
                      DigitVal((WholePart(s) \o NeededFraction(s))[i])]
    IN  FloatFinite(FALSE, StripTrailingZeros(digits), Len(WholePart(s)))

\* the digits after the point in the printed form of the float a string
\* parses to, none when the form has no point
PrintedFraction(s) ==
    IF DotPositions(FloatStr(FloatOf(s).val)) = {} THEN <<>>
    ELSE AfterDot(FloatStr(FloatOf(s).val))

\* C8 as stated: an amount written with more than two digits after the point
\* is rejected whatever its value, and one written with at most two whose
\* value is in [10.00, 10000.00] is accepted.
C8_WrittenDigitsDecide ==
    (last.op = "validate_amount" /\ IsNumeral(last.args)) =>
        /\ Len(WrittenFraction(last.args)) > 2 => Failed(last.res, MsgAmount)
        /\ (Len(WrittenFraction(last.args)) <= 2 /\ InAmountRange(last.args)) => last.res.ok

\* C8, amended: the amount is decided on the float the input parses to and
\* not on the input's text.  An input whose float is printed with more than
\* two digits after the point is rejected, and one whose float is printed
\* with at most two and lies in [10, 10000] is accepted and that float
\* returned.  For a plain numeral of at most 15 characters the printed digits
\* are the written ones without trailing zeros: 10.000 and 100.500 are
\* accepted, 10.001 is rejected.
C8_PrintedDigitsDecide ==
    last.op = "validate_amount" =>
        /\ (FloatOf(last.args).ok /\ Len(PrintedFraction(last.args)) > 2) =>
              Failed(last.res, MsgAmount)
        /\ (/\ FloatOf(last.args).ok /\ Len(PrintedFraction(last.args)) <= 2
            /\ FloatOf(last.args).val.kind = "finite"
            /\ ~FloatLess(FloatOf(last.args).val, 10)
            /\ ~FloatGreater(FloatOf(last.args).val, 10000)) =>
              Returned(last.res, FloatOf(last.args).val)
        /\ IsNumeral(last.args) =>
              /\ Len(NeededFraction(last.args)) > 2 => Failed(last.res, MsgAmount)
              /\ (Len(NeededFraction(last.args)) <= 2 /\ InAmountRange(last.args)) =>
                    Returned(last.res, NumeralValue(last.args))

\* 10.000, written with three fractional digits, accepted as 10.0
C8_Witness ==
    /\ last.op = "validate_amount"
    /\ last.args = Amount10_000
    /\ Returned(last.res, FloatOfInt(10))

\* C4: load_json_or_empty gives the empty list for a missing file and the
\* stored list for a JSON array, fails with the JSON decode error on a file
\* that is not JSON or is JSON but no array, and never returns a non-list.
C4_LoadOrEmptyGivesLists ==
    last.op = "load_json_or_empty" =>
        /\ last.args.kind \in {"missing", "noparent"} => Returned(last.res, PyList(<<>>))
        /\ last.args.kind = "array" => Returned(last.res, PyList(last.args.items))
        /\ last.args.kind \in {"empty", "invalid", "object", "number"} =>
              Failed(last.res, MsgJsonDecode)
        /\ last.res.ok => last.res.val.type = "list"

----------------------------------------------------------------------------
(* Properties of the entry points.  A step in which no time passes is a     *)
(* call of an entry point, and last' is that call.                          *)

CallStep == today' = today

TransferOps == {"create_transfer", "transfer_request"}
BalanceOps == {"calculate_and_save_balance", "calculate_balance"}
DepositOps ==
    {"deposit", "process_deposit_file", "deposit_into_account_of_service",
     "deposit_into_account"}

IsPrefix(s, u) == Len(s) <= Len(u) /\ SubSeq(u, 1, Len(s)) = s

\* g holds the records of f followed by exactly one more
GrownByOne(f, g) ==
    /\ g.kind = "array"
    /\ Len(g.items) = Len(Records(f)) + 1
    /\ SubSeq(g.items, 1, Len(Records(f))) = Records(f)

LastRecord(f) == f.items[Len(f.items)]

\* every argument of the request passes its check on the day now
AllArgumentsPass(r, now) ==
    /\ ValidateIban(r.from_iban).ok
    /\ ValidateIban(r.to_iban).ok
    /\ validate_concept(r.concept).ok
    /\ TypePatternFullmatch(r.transfer_type)
    /\ validate_transfer_date(r.date, now).ok
    /\ validate_amount(r.amount).ok

\* the stored record holds the values of the request in the six business
\* fields, the amount as the float it parses to
SameSix(rec, r) ==
    /\ rec.from_iban = r.from_iban
    /\ rec.to_iban = r.to_iban
    /\ rec.transfer_date = r.date
    /\ rec.transfer_amount = FloatOf(r.amount).val
    /\ rec.transfer_concept = r.concept
    /\ rec.transfer_type = r.transfer_type

HoldsSame(store, r) == \E i \in 1..Len(Records(store)) : SameSix(Records(store)[i], r)

\* C1: a submit-transfer whose arguments all pass validation fails with the
\* duplicate error exactly when the transfer store already holds a record
\* equal to it on the six business fields, whatever the timestamps; then the
\* store is left as it was, and otherwise exactly one record, the request's,
\* is appended and its code returned.
C1_DuplicateIffStored ==
    [][(CallStep /\ last'.op \in TransferOps /\ AllArgumentsPass(last'.args, today)) =>
          /\ Failed(last'.res, MsgDuplicate) <=> HoldsSame(transfers, last'.args)
          /\ HoldsSame(transfers, last'.args) => transfers' = transfers
          /\ ~HoldsSame(transfers, last'.args) =>
                /\ last'.res.ok
                /\ GrownByOne(transfers, transfers')
                /\ SameSix(LastRecord(transfers'), last'.args)
                /\ last'.res.val = LastRecord(transfers').transfer_code]_vars

\* C2: a call of any of the three entry points that ends in a failure leaves
\* the transfers, deposits, balances and transactions files as they were.
C2_FailureWritesNothing ==
    [][(CallStep /\ ~last'.res.ok) =>
          UNCHANGED <<transfers, deposits, balances, txlog>>]_vars

\* a duplicate transfer refused while the store holds its one record
C2_Witness ==
    /\ last.op \in TransferOps
    /\ Failed(last.res, MsgDuplicate)
    /\ Len(Records(transfers)) = 1

\* C3: with a valid IBAN, every implementation of compute-balance fails with
\* the missing-file error when the transaction log does not exist, and with
\* "IBAN not found" when the log is an empty array.
C3_MissingLogIsAnError ==
    (last.op \in BalanceOps /\ ValidateIban(last.args).ok) =>
        /\ txlog.kind = "missing" => Failed(last.res, MsgWrongFile)
        /\ (txlog.kind = "array" /\ txlog.items = <<>>) => Failed(last.res, MsgIbanNotFound)

\* C5: no step removes, changes or moves a record of a store: the records of
\* each store before a step are a prefix of its records after it; and a
\* successful call leaves its store holding the earlier records followed by
\* exactly the one record of the call.
C5_AppendKeepsPrefix ==
    [][/\ IsPrefix(Records(transfers), Records(transfers'))
       /\ IsPrefix(Records(deposits), Records(deposits'))
       /\ IsPrefix(Records(balances), Records(balances'))
       /\ (CallStep /\ last'.res.ok) =>
             /\ last'.op \in TransferOps =>
                   /\ GrownByOne(transfers, transfers')
                   /\ LastRecord(transfers').transfer_code = last'.res.val
             /\ last'.op \in DepositOps =>
                   /\ GrownByOne(deposits, deposits')
                   /\ LastRecord(deposits').deposit_signature = last'.res.val
             /\ last'.op \in BalanceOps =>
                   /\ GrownByOne(balances, balances')
                   /\ LastRecord(balances').IBAN = last'.args]_vars

\* a store that has been appended to twice
C5_Witness ==
    \/ Len(Records(transfers)) = 2
    \/ Len(Records(deposits)) = 2
    \/ Len(Records(balances)) = 2

\* the indices of the records of the log whose IBAN is iban
Matching(log, iban) ==
    {i \in 1..Len(log) : "IBAN" \in DOMAIN log[i] /\ log[i].IBAN = iban}

\* the sum of the amount fields of the records at the indices S
RECURSIVE SumOfAmounts(_, _)
SumOfAmounts(log, S) ==
    IF S = {} THEN 0
    ELSE LET i == CHOOSE j \in S : TRUE
         IN  (IF "amount" \in DOMAIN log[i] THEN log[i].amount ELSE 0)
             + SumOfAmounts(log, S \ {i})

\* C6: with a valid IBAN and a transaction log that is an array of records,
\* compute-balance fails with "IBAN not found" exactly when no record has the
\* IBAN; otherwise it returns true and appends one snapshot with that IBAN
\* whose BALANCE is the sum of the amounts of the matching records, also
\* when that sum is zero.
C6_BalanceIsSumOfMatching ==
    [][(CallStep /\ last'.op \in BalanceOps /\ ValidateIban(last'.args).ok
        /\ txlog.kind = "array") =>
          LET matching == Matching(txlog.items, last'.args)
          IN  /\ Failed(last'.res, MsgIbanNotFound) <=> matching = {}
              /\ matching = {} => balances' = balances
              /\ matching # {} =>
                    /\ Returned(last'.res, TRUE)
                    /\ GrownByOne(balances, balances')
                    /\ LastRecord(balances').IBAN = last'.args
                    /\ LastRecord(balances').BALANCE
                         = FloatOfInt(SumOfAmounts(txlog.items, matching))]_vars

\* a balance of zero computed from records that cancel out
C6_Witness ==
    /\ last.op \in BalanceOps
    /\ last.res.ok
    /\ txlog = LogZeroSum
    /\ last.args = IbanA
    /\ LastRecord(balances).BALANCE = FloatOfInt(0)

\* C9: submit-transfer reports the failure of the first failing check in the
\* order fromIban, toIban, concept, type, date, amount, and the duplicate
\* error only when all six checks pass.
C9_FirstFailingCheck ==
    [][(CallStep /\ last'.op \in TransferOps) =>
          LET a == last'.args
              from == ValidateIban(a.from_iban)
              to == ValidateIban(a.to_iban)
              concept == validate_concept(a.concept)
              typeOk == TypePatternFullmatch(a.transfer_type)
              date == validate_transfer_date(a.date, today)
              amount == validate_amount(a.amount)
          IN  /\ ~from.ok => Failed(last'.res, from.err)
              /\ (from.ok /\ ~to.ok) => Failed(last'.res, to.err)
              /\ (from.ok /\ to.ok /\ ~concept.ok) => Failed(last'.res, concept.err)
              /\ (from.ok /\ to.ok /\ concept.ok /\ ~typeOk) => Failed(last'.res, MsgType)
              /\ (from.ok /\ to.ok /\ concept.ok /\ typeOk /\ ~date.ok) =>
                    Failed(last'.res, date.err)
              /\ (from.ok /\ to.ok /\ concept.ok /\ typeOk /\ date.ok /\ ~amount.ok) =>
                    Failed(last'.res, amount.err)
              /\ Failed(last'.res, MsgDuplicate) => AllArgumentsPass(a, today)]_vars

\* a request equal to a stored record, submitted once its date has passed,
\* refused for its date
C9_Witness ==
    /\ last.op \in TransferOps
    /\ Failed(last.res, MsgPastDate)
    /\ HoldsSame(transfers, last.args)

\* C11: for a real date of the DD/MM/YYYY shape with its year in [2025, 2050],
\* validate_transfer_date fails with the past-date error when the date is
\* before the current UTC date and returns the string unchanged when it is
\* the current date or later; a string that is not of the shape or names no
\* day of the calendar fails with "Invalid date format".
C11_DateValidation ==
    last.op = "validate_transfer_date" =>
        /\ (IsRealDate(last.args) /\ YearOf(last.args) \in 2025..2050) =>
              /\ DateLess(DateOf(last.args), today) => Failed(last.res, MsgPastDate)
              /\ ~DateLess(DateOf(last.args), today) => Returned(last.res, last.args)
        /\ ~IsRealDate(last.args) => Failed(last.res, MsgDateFormat)

\* letters and whitespace only, a letter first and last, some whitespace inside
IsWordsAndWhitespace(s) ==
    /\ Len(s) >= 1
    /\ \A i \in 1..Len(s) : s[i] \in Alpha \cup Whitespace
    /\ s[1] \in Alpha /\ s[Len(s)] \in Alpha
    /\ \E i \in 1..Len(s) : s[i] \in Whitespace

\* C12 as stated: validate_concept succeeds exactly on the strings of 10 to 30
\* characters made of two or more alphabetic tokens separated by whitespace,
\* and fails with "Invalid concept format" on every other string.
C12_WhitespaceSeparated ==
    last.op = "validate_concept" =>
        LET accepted == Len(last.args) \in 10..30 /\ IsWordsAndWhitespace(last.args)
        IN  /\ accepted => last.res.ok
            /\ ~accepted => Failed(last.res, MsgConcept)

\* C12, amended: validate_concept succeeds exactly on the strings of 10 to 30
\* characters made of two or more tokens of the letters a-z and A-Z with
\* exactly one whitespace character, not a line feed, between neighbouring
\* tokens, and fails with "Invalid concept format" on every other string.
C12_SingleSeparator ==
    last.op = "validate_concept" =>
        LET accepted ==
                /\ Len(last.args) \in 10..30
                /\ IsWordsAndWhitespace(last.args)
                /\ \A i \in 1..Len(last.args) : last.args[i] # LineFeed
                /\ \A i \in 1..(Len(last.args) - 1) :
                      last.args[i] \in Alpha \/ last.args[i + 1] \in Alpha
        IN  /\ accepted => last.res.ok
            /\ ~accepted => Failed(last.res, MsgConcept)

\* two words with two spaces between them, rejected
C12_Witness ==
    /\ last.op = "validate_concept"
    /\ Len(last.args) \in 10..30
    /\ IsWordsAndWhitespace(last.args)
    /\ \E i \in 1..(Len(last.args) - 1) : last.args[i] = " " /\ last.args[i + 1] = " "
    /\ Failed(last.res, MsgConcept)

\* the two records agree on the four values the code is computed from
SameFour(a, b) ==
    /\ a.from_iban = b.from_iban
    /\ a.to_iban = b.to_iban
    /\ a.time_stamp = b.time_stamp
    /\ a.transfer_amount = b.transfer_amount

\* C13: the transfer code depends on from_iban, to_iban, time_stamp and
\* amount alone: after a successful submit, the code returned is the code
\* written into the record just stored, and every stored record that agrees
\* with the new one on these four values carries the same code, whatever its
\* concept, type and date are.
C13_CodeFromFourFields ==
    [][(CallStep /\ last'.op \in TransferOps /\ last'.res.ok) =>
          /\ last'.res.val = LastRecord(transfers').transfer_code
          /\ \A i \in 1..Len(Records(transfers')) :
                SameFour(Records(transfers')[i], LastRecord(transfers')) =>
                   Records(transfers')[i].transfer_code = last'.res.val]_vars

\* two stored transfers with different concepts and the same code
C13_Witness ==
    /\ Len(Records(transfers)) = 2
    /\ Records(transfers)[1].transfer_concept # Records(transfers)[2].transfer_concept
    /\ SameFour(Records(transfers)[1], Records(transfers)[2])
    /\ Records(transfers)[1].transfer_code = Records(transfers)[2].transfer_code

\* C14: two requests that differ in at least one of from_iban, to_iban,
\* time_stamp and amount have different hashed strings, and so different
\* codes.  The digits after the point of the time_stamp run into the first
\* digits of the amount, so requests that differ in both can hash the same
\* string.
C14_ConcatenationInjective ==
    last.op = "transfer_code" =>
        (~SameFour(last.args[1], last.args[2]) => last.res.val[1] # last.res.val[2])

\* an input file holding an object with a valid IBAN and an AMOUNT of the
\* form "EUR dddd.dd" that is not zero
IsValidDepositInput(f) ==
    /\ f.kind = "object"
    /\ {"IBAN", "AMOUNT"} \subseteq DOMAIN f.items
    /\ IsEs22(f.items.IBAN)
    /\ DigitVal(f.items.IBAN[3]) * 10 + DigitVal(f.items.IBAN[4]) = 98 - BodyMod97(f.items.IBAN)
    /\ Len(f.items.AMOUNT) = 11
    /\ SubSeq(f.items.AMOUNT, 1, 4) = <<"E", "U", "R", " ">>
    /\ f.items.AMOUNT[9] = "."
    /\ \A i \in {5, 6, 7, 8, 10, 11} : f.items.AMOUNT[i] \in Digits
    /\ \E i \in {5, 6, 7, 8, 10, 11} : f.items.AMOUNT[i] # "0"

\* C15: every submit-deposit with a valid input file succeeds, appends
\* exactly one record to the deposit store and returns that record's
\* signature, also when the store already holds a record of the same
\* payload; the store grows by one on a successful deposit and on no other
\* step, so it holds as many records as deposits succeeded, and every record
\* has an amount greater than 0.
C15_DepositsNotDeduplicated ==
    [][/\ (CallStep /\ last'.op \in DepositOps /\ IsValidDepositInput(last'.args)) =>
             /\ last'.res.ok
             /\ GrownByOne(deposits, deposits')
             /\ LastRecord(deposits').deposit_signature = last'.res.val
       /\ Len(Records(deposits')) =
             Len(Records(deposits))
             + (IF CallStep /\ last'.op \in DepositOps /\ last'.res.ok THEN 1 ELSE 0)
       /\ \A i \in 1..Len(Records(deposits')) :
             FloatGreater(Records(deposits')[i].deposit_amount, 0)]_vars

\* the same payload deposited twice, and stored twice
C15_Witness ==
    /\ last.op \in DepositOps
    /\ last.res.ok
    /\ Len(Records(deposits)) = 2
    /\ Records(deposits)[1].to_iban = Records(deposits)[2].to_iban
    /\ Records(deposits)[1].deposit_amount = Records(deposits)[2].deposit_amount

\* the record is among the records of the sequence
Holds(s, record) == \E i \in 1..Len(s) : s[i] = record

\* C16: when two callers of append_record on one store have both finished
\* without an exception, the store holds both records if one of them loaded
\* the file after the other had rewritten it (its list holds the other's
\* record); if both loaded before either rewrote, the store never holds
\* both: it holds the record of one caller only and the other's is lost,
\* or it holds text that is no JSON and no record at all.
C16_LostUpdate ==
    (pc[1] = "done" /\ pc[2] = "done") =>
        LET one == Holds(Records(transfers), appending[1].record)
            two == Holds(Records(transfers), appending[2].record)
            serialized == \/ Holds(appending[1].records, appending[2].record)
                          \/ Holds(appending[2].records, appending[1].record)
        IN  /\ serialized => (one /\ two)
            /\ ~serialized =>
                  \/ one /\ ~two
                  \/ two /\ ~one
                  \/ transfers = FileInvalid

\* both callers finished, and the record of caller 1 is not in the store
C16_Witness ==
    /\ pc[1] = "done"
    /\ pc[2] = "done"
    /\ ~Holds(Records(transfers), appending[1].record)
    /\ Holds(Records(transfers), appending[2].record)

\* C17: a submit-transfer changes no file but the transfer store, a
\* submit-deposit no file but the deposit store and leaves its input file
\* with the content it was called on, a compute-balance no file but the
\* balance store, and no step changes the transaction log.
C17_OwnStoreOnly ==
    [][/\ txlog' = txlog
       /\ CallStep =>
             /\ last'.op \in TransferOps =>
                   UNCHANGED <<deposits, balances, txlog, depinput>>
             /\ last'.op \in DepositOps =>
                   /\ UNCHANGED <<transfers, balances, txlog>>
                   /\ depinput' = last'.args
             /\ last'.op \in BalanceOps =>
                   UNCHANGED <<transfers, deposits, txlog, depinput>>]_vars

\* a balance computed and saved from a log that holds records
C17_Witness ==
    /\ last.op \in BalanceOps
    /\ last.res.ok
    /\ Len(Records(balances)) >= 1
    /\ Len(Records(txlog)) >= 1

\* the two stored records hold the same values in the six business fields
SameSixStored(a, b) ==
    /\ a.from_iban = b.from_iban
    /\ a.to_iban = b.to_iban
    /\ a.transfer_concept = b.transfer_concept
    /\ a.transfer_type = b.transfer_type
    /\ a.transfer_date = b.transfer_date
    /\ a.transfer_amount = b.transfer_amount

\* C18: in a transfer store that started without records, after every step
\* no two records agree on all six business fields, and the store has one
\* record more after a submit that returned a code and as many as before
\* after every other step, so that it holds as many records as submits
\* returned a code.
C18_NoTwoAlike ==
    [][/\ \A i, j \in 1..Len(Records(transfers')) :
             i # j => ~SameSixStored(Records(transfers')[i], Records(transfers')[j])
       /\ Len(Records(transfers')) =
             Len(Records(transfers))
             + (IF CallStep /\ last'.op \in TransferOps /\ last'.res.ok THEN 1 ELSE 0)]_vars

====
